---- MODULE Spec2Model ----
(***************************************************************************)
(* A model of util/cythonpp.py: the configuration algebra (Condition,      *)
(* Configuration, ConfigurationGroups), the configuration enumerator, the  *)
(* per-configuration preprocessor, the generation phase with its cache,    *)
(* the diff-based merge and the directive regenerator.                     *)
(***************************************************************************)
EXTENDS Integers, Sequences, FiniteSets, TLC

(***************************************************************************)
(* Generic sequence helpers.                                               *)
(***************************************************************************)
Range(s) == {s[i] : i \in 1..Len(s)}

SeqsUpTo(S, n) == UNION {[1..k -> S] : k \in 0..n}

NonEmptySeqsUpTo(S, n) == UNION {[1..k -> S] : k \in 1..n}

Reverse(s) == [i \in 1..Len(s) |-> s[Len(s) + 1 - i]]

\* list.remove(x): drops the first occurrence of x.
ListRemove(s, x) ==
    LET i == CHOOSE k \in 1..Len(s) : s[k] = x /\ \A m \in 1..(k - 1) : s[m] # x
    IN  SubSeq(s, 1, i - 1) \o SubSeq(s, i + 1, Len(s))

RECURSIVE Flatten(_)
Flatten(ss) == IF ss = <<>> THEN <<>> ELSE Head(ss) \o Flatten(Tail(ss))

(***************************************************************************)
(* Condition: the 2-tuple (name, True|False).                              *)
(***************************************************************************)
\* The condition names of the model, in str order.
Names == <<"A", "B">>

NameSet == Range(Names)

NameRank(n) == CHOOSE i \in 1..Len(Names) : Names[i] = n

Condition(name, value) == <<name, value>>

AllConditions == {Condition(n, v) : n \in NameSet, v \in BOOLEAN}

inverted(c) == Condition(c[1], ~c[2])

\* tuple.__lt__ on (str, bool): the name first, then False < True.
CondLt(c, d) ==
    \/ NameRank(c[1]) < NameRank(d[1])
    \/ c[1] = d[1] /\ ~c[2] /\ d[2]

(***************************************************************************)
(* Configuration: a frozenset of Conditions, iterated in sorted order.     *)
(***************************************************************************)
\* Configuration.__new__ raises TypeError for an empty iterable.
EmptyConfiguration(conds) == conds = {}

\* Every value Configuration.__new__ accepts over the model's conditions.
AllConfigurations == (SUBSET AllConditions) \ {{}}

\* Configuration.__iter__: the conditions as the sorted tuple _sorted.
RECURSIVE SortedConditions(_)
SortedConditions(cfg) ==
    IF cfg = {} THEN <<>>
    ELSE LET c == CHOOSE x \in cfg : \A y \in cfg : ~CondLt(y, x)
         IN  <<c>> \o SortedConditions(cfg \ {c})

all_directives(cfg) == {c[1] : c \in cfg}

\* Some condition name occurs in cfg with both truth values.
Contradictory(cfg) ==
    \E c \in cfg, d \in cfg : c[1] = d[1] /\ c[2] # d[2]

\* A variant of is_impossible that finds no Configuration impossible.
is_impossible_Never(cfg) == FALSE

\* Lines 116-121: the loop over the conditions in sorted order, with the
\* dictionary conds of the settings met so far.  Falling off the end
\* returns None, which is falsy.
RECURSIVE ImpossibleLoop(_, _)
ImpossibleLoop(remaining, conds) ==
    IF remaining = <<>> THEN FALSE
    ELSE LET cond_name == remaining[1][1]
             cond_setting == remaining[1][2]
         IN  IF cond_name \in DOMAIN conds /\ conds[cond_name] # cond_setting
             THEN TRUE
             ELSE ImpossibleLoop(Tail(remaining),
                      [n \in DOMAIN conds \cup {cond_name} |->
                          IF n = cond_name THEN cond_setting ELSE conds[n]])

is_impossible(cfg) == ImpossibleLoop(SortedConditions(cfg), <<>>)

\* Configuration defines no ordering of its own: sorted() compares two
\* Configurations with frozenset.__lt__, the proper-subset test.
ConfigLt(a, b) == a \subseteq b /\ a # b

(***************************************************************************)
(* sorted() on a short list of Configurations: list.sort finds the         *)
(* leading run (reversing a strictly descending one) and inserts the rest  *)
(* by binary insertion, all with ConfigLt.                                 *)
(***************************************************************************)
RECURSIVE RunEnd(_, _, _)
RunEnd(s, k, descending) ==
    IF k < Len(s) /\ (ConfigLt(s[k + 1], s[k]) <=> descending)
    THEN RunEnd(s, k + 1, descending)
    ELSE k

RECURSIVE BinarySearch(_, _, _, _)
BinarySearch(s, pivot, l, r) ==
    IF l >= r THEN l
    ELSE LET p == l + ((r - l) \div 2)
         IN  IF ConfigLt(pivot, s[p])
             THEN BinarySearch(s, pivot, l, p)
             ELSE BinarySearch(s, pivot, p + 1, r)

RECURSIVE BinarySort(_, _)
BinarySort(s, start) ==
    IF start > Len(s) THEN s
    ELSE LET pivot == s[start]
             l == BinarySearch(s, pivot, 1, start)
             moved == SubSeq(s, 1, l - 1) \o <<pivot>> \o SubSeq(s, l, start - 1)
                      \o SubSeq(s, start + 1, Len(s))
         IN  BinarySort(moved, start + 1)

PySorted(s) ==
    IF Len(s) < 2 THEN s
    ELSE LET descending == ConfigLt(s[2], s[1])
             n == RunEnd(s, 2, descending)
             run == IF descending THEN Reverse(SubSeq(s, 1, n)) ELSE SubSeq(s, 1, n)
         IN  BinarySort(run \o SubSeq(s, n + 1, Len(s)), n + 1)

(***************************************************************************)
(* ConfigurationGroups: a tuple of Configurations kept in sorted() order.  *)
(***************************************************************************)
ConfigurationGroups(tags) == PySorted(tags)

\* ConfigurationGroups.__add__
GroupAdd(g, other) == ConfigurationGroups(g \o other)

\* combinations(self, 2): the index pairs i < j in lexicographic order.
RECURSIVE Combinations2From(_, _, _)
Combinations2From(n, i, j) ==
    IF i >= n THEN <<>>
    ELSE IF j > n THEN Combinations2From(n, i + 1, i + 2)
    ELSE <<(<<i, j>>)>> \o Combinations2From(n, i, j + 1)

Combinations2(n) == Combinations2From(n, 1, 2)

NoStep == [kind |-> "none", tags |-> <<>>]

RaiseStep == [kind |-> "raise", tags |-> <<>>]

\* Lines 384-398: the loop over the conditions of tag1 for one pair.
RECURSIVE ConditionLoop(_, _, _, _)
ConditionLoop(g, tag1, tag2, conds) ==
    IF conds = <<>> THEN NoStep
    ELSE LET inverted_condition == inverted(Head(conds))
             tag1_copy == tag1 \ {inverted_condition}
             tag2_copy == tag2 \ {inverted_condition}
         IN  IF inverted_condition \in tag2
             THEN IF EmptyConfiguration(tag1_copy) \/ EmptyConfiguration(tag2_copy)
                  THEN RaiseStep
                  ELSE IF tag1_copy = tag2_copy
                  THEN [kind |-> "next",
                        tags |-> ConfigurationGroups(
                                   Append(ListRemove(ListRemove(g, tag1), tag2),
                                          tag1_copy))]
                  ELSE ConditionLoop(g, tag1, tag2, Tail(conds))
             ELSE ConditionLoop(g, tag1, tag2, Tail(conds))

\* Lines 378-398: the loop over the pairs; the first pair that returns or
\* raises decides the step.
RECURSIVE PairLoop(_, _)
PairLoop(g, pairs) ==
    IF pairs = <<>> THEN NoStep
    ELSE LET tag1 == g[Head(pairs)[1]]
             tag2 == g[Head(pairs)[2]]
             step == IF tag1 = tag2
                     THEN [kind |-> "next",
                           tags |-> ConfigurationGroups(ListRemove(g, tag1))]
                     ELSE ConditionLoop(g, tag1, tag2, SortedConditions(tag1))
         IN  IF step.kind = "none" THEN PairLoop(g, Tail(pairs)) ELSE step

\* simplify_tags: [ok |-> FALSE] stands for the TypeError it lets escape.
RECURSIVE simplify_tags(_)
simplify_tags(g) ==
    LET step == PairLoop(g, Combinations2(Len(g)))
    IN  CASE step.kind = "none"  -> [ok |-> TRUE, tags |-> g]
          [] step.kind = "raise" -> [ok |-> FALSE, tags |-> <<>>]
          [] OTHER               -> simplify_tags(step.tags)

(***************************************************************************)
(* State.  Each component of the program is exercised by a specification   *)
(* of its own; the variables of the other components stay at their idle    *)
(* values.                                                                 *)
(***************************************************************************)
VARIABLES
    \* ConfigurationGroups(tags).simplify_tags()
    sinput,     \* the list handed to ConfigurationGroups
    sresult,    \* what simplify_tags returned
    sagain,     \* <<>>, or <<r>> for the outcome r of simplify_tags on sresult
    spc         \* "new" | "returned" | "raised"

simplifyVars == <<sinput, sresult, sagain, spc>>

SimplifyIdle == sinput = <<>> /\ sresult = <<>> /\ sagain = <<>> /\ spc = "off"

(***************************************************************************)
(* SpecSimplify: simplify_tags applied to every short group.               *)
(***************************************************************************)
\* The longest list of Configurations a group is built from.
MaxGroupLen == 3

SimplifyInit ==
    /\ sinput \in SeqsUpTo(AllConfigurations, MaxGroupLen)
    /\ sresult = <<>>
    /\ sagain = <<>>
    /\ spc = "new"

SimplifyCall ==
    /\ spc = "new"
    /\ LET r == simplify_tags(ConfigurationGroups(sinput))
       IN  /\ sresult' = r.tags
           /\ spc' = IF r.ok THEN "returned" ELSE "raised"
    /\ UNCHANGED <<sinput, sagain>>

\* simplify_tags called on the group a first call returned.
SimplifyAgain ==
    /\ spc = "returned"
    /\ sagain = <<>>
    /\ sagain' = <<simplify_tags(sresult)>>
    /\ UNCHANGED <<sinput, sresult, spc>>

\* Two Configurations identical except for one condition's truth value.
AdjacentRows(t1, t2) ==
    \E c \in t1 : inverted(c) \in t2 /\ t1 \ {c} = t2 \ {inverted(c)}

CommonRemainder(t1, t2) == t1 \cap t2

\* C5: simplify_tags applies the adjacent-row rule: a group made of two
\* Configurations that differ in exactly one condition's truth value (and
\* share at least one more condition) simplifies to a group that holds
\* neither of them but holds their common remainder.
C5_AdjacentRowRule ==
    (/\ spc # "new"
     /\ Len(sinput) = 2
     /\ AdjacentRows(sinput[1], sinput[2])
     /\ CommonRemainder(sinput[1], sinput[2]) # {})
    => (/\ spc = "returned"
        /\ sinput[1] \notin Range(sresult)
        /\ sinput[2] \notin Range(sresult)
        /\ CommonRemainder(sinput[1], sinput[2]) \in Range(sresult))

\* C6: for the single-condition complements {X=true}, {X=false} the common
\* remainder is empty: simplify_tags returns normally and the group
\* collapses to the condition-free "always true" group; nothing is raised.
C6_ComplementsCollapse ==
    (/\ spc # "new"
     /\ Len(sinput) = 2
     /\ Cardinality(sinput[1]) = 1
     /\ \E c \in sinput[1] : sinput[2] = {inverted(c)})
    => (spc = "returned" /\ sresult = <<>>)

(***************************************************************************)
(* Input files.  A line is a conditional directive (as match_condition     *)
(* recognises it), a #define (as define_re recognises it, with or without  *)
(* a trailing backslash) or any other line.                                *)
(***************************************************************************)
Line(kind, arg) == [kind |-> kind, arg |-> arg]

IfLines == {Line("if", n) : n \in NameSet}

DirectiveLines == IfLines \cup {Line("else", ""), Line("endif", "")}

\* A variant of match_condition that does not know the #else lines.
match_condition_NoElse(line) == line.kind \in {"if", "endif"}

\* Condition.match_condition(line) is not None
match_condition(line) == line.kind \in {"if", "else", "endif"}

VARIABLES
    \* Configuration.get_complete_configurations(filename)
    efile,            \* the lines of the file
    elinecount,       \* linecount of get_configurations
    condition_stack,  \* condition_stack of get_configurations
    conditions,       \* the Configurations seen so far
    permutations,     \* get_permutations_of_configurations_in_file
    eresult,          \* the list get_complete_configurations returns
    epc               \* "scan" | "scanned" | "permuted" | "done" | an error

enumVars == <<efile, elinecount, condition_stack, conditions, permutations,
              eresult, epc>>

EnumIdle ==
    /\ efile = <<>>
    /\ elinecount = 0
    /\ condition_stack = <<>>
    /\ conditions = {}
    /\ permutations = {}
    /\ eresult = <<>>
    /\ epc = "off"

(***************************************************************************)
(* SpecEnum: the configuration enumerator on every short file.             *)
(***************************************************************************)
\* The longest file the enumerator is run on.
MaxEnumLines == 5

EnumLines == DirectiveLines \cup {Line("text", "")}

EnumInit ==
    /\ efile \in SeqsUpTo(EnumLines, MaxEnumLines)
    /\ elinecount = 0
    /\ condition_stack = <<>>
    /\ conditions = {}
    /\ permutations = {}
    /\ eresult = <<>>
    /\ epc = "scan"

\* Lines 151-192: one iteration of the loop over the lines of the file.
GetConfigurationsLine ==
    /\ epc = "scan"
    /\ elinecount < Len(efile)
    /\ elinecount' = elinecount + 1
    /\ LET line == efile[elinecount + 1]
           top == condition_stack[Len(condition_stack)]
           popped == SubSeq(condition_stack, 1, Len(condition_stack) - 1)
       IN  CASE ~match_condition(line) ->
                  /\ conditions' = IF condition_stack # <<>>
                                   THEN conditions \cup {Range(condition_stack)}
                                   ELSE conditions
                  /\ UNCHANGED <<condition_stack, epc>>
             [] line.kind = "if" ->
                  /\ condition_stack' =
                         Append(condition_stack, Condition(line.arg, TRUE))
                  /\ UNCHANGED <<conditions, epc>>
             [] line.kind = "else" ->
                  IF condition_stack = <<>>
                  THEN epc' = "SyntaxError" /\ UNCHANGED <<condition_stack, conditions>>
                  ELSE IF ~top[2]
                  THEN /\ epc' = "AssertionError"
                       /\ condition_stack' = popped
                       /\ UNCHANGED conditions
                  ELSE /\ condition_stack' = Append(popped, Condition(top[1], ~top[2]))
                       /\ UNCHANGED <<conditions, epc>>
             [] line.kind = "endif" ->
                  IF condition_stack = <<>>
                  THEN epc' = "SyntaxError" /\ UNCHANGED <<condition_stack, conditions>>
                  ELSE condition_stack' = popped /\ UNCHANGED <<conditions, epc>>
    /\ UNCHANGED <<efile, permutations, eresult>>

\* Lines 193-194: the end of the file; the conditions are returned.
GetConfigurationsReturn ==
    /\ epc = "scan"
    /\ elinecount = Len(efile)
    /\ epc' = "scanned"
    /\ UNCHANGED <<efile, elinecount, condition_stack, conditions, permutations,
                   eresult>>

\* flattened(x) for the tuples x of product(items, repeat=len(items)): the
\* tuples range over every non-empty choice of items, and flattened unions
\* the conditions of the chosen ones.
flattened(tuple_of_configurations) == UNION tuple_of_configurations

get_permutations_of_configurations(items) ==
    {flattened(x) : x \in {y \in (SUBSET items) \ {{}} : ~is_impossible(flattened(y))}}

\* Lines 197-226.  For no items product() yields the one empty tuple, and
\* flattened raises TypeError on it.
GetPermutations ==
    /\ epc = "scanned"
    /\ IF conditions = {}
       THEN epc' = "TypeError" /\ UNCHANGED permutations
       ELSE /\ permutations' = get_permutations_of_configurations(conditions)
            /\ epc' = "permuted"
    /\ UNCHANGED <<efile, elinecount, condition_stack, conditions, eresult>>

all_cond_names(configurations) == UNION {all_directives(c) : c \in configurations}

\* Lines 241-246: one configuration with its missing names set to False.
Completed(configuration, names) ==
    configuration \cup {Condition(n, FALSE) : n \in names \ all_directives(configuration)}

CompleteSet(configurations) ==
    {Completed(c, all_cond_names(configurations)) : c \in configurations}

\* Every list holding each element of the set S once.
Orderings(S) ==
    {o \in [1..Cardinality(S) -> S] : \A i, j \in 1..Cardinality(S) : o[i] = o[j] => i = j}

\* sorted() applied to the iteration order of a set: the iteration order is
\* that of the hashes, any order, and sorted() rearranges it with ConfigLt.
SortedSet(S) == {PySorted(o) : o \in Orderings(S)}

\* Lines 235-254.
GetCompleteConfigurations ==
    /\ epc = "permuted"
    /\ eresult' \in SortedSet(CompleteSet(permutations))
    /\ epc' = "done"
    /\ UNCHANGED <<efile, elinecount, condition_stack, conditions, permutations>>

\* The condition names of the #if/#ifdef directives of a file.
FileNames(file) == {file[i].arg : i \in {k \in 1..Len(file) : file[k].kind = "if"}}

\* The complete Configuration of a total truth assignment.
AssignmentConfiguration(a) == {Condition(n, a[n]) : n \in DOMAIN a}

\* C3: the enumerator is exhaustive: the list it returns holds the complete
\* Configuration of every total truth assignment over the condition names
\* of the file's directives, the all-false one included.
C3_Exhaustive ==
    (epc = "done" /\ condition_stack = <<>>) =>
        \A a \in [FileNames(efile) -> BOOLEAN] :
            AssignmentConfiguration(a) \in Range(eresult)

\* C4: for a file whose directives mention the single condition X, with or
\* without an #else branch and with or without content in the branches,
\* get_complete_configurations returns exactly {X=true} and {X=false}.
C4_SingleCondition ==
    \A x \in NameSet :
        (/\ FileNames(efile) = {x}
         /\ condition_stack = <<>>
         /\ epc \in {"done", "TypeError"}) =>
            (/\ epc = "done"
             /\ Len(eresult) = 2
             /\ Range(eresult) = {{Condition(x, TRUE)}, {Condition(x, FALSE)}})

(***************************************************************************)
(* preprocess_filename.  The text of a line is a sequence of tokens.       *)
(***************************************************************************)
\* The one macro name and the one body word of the model's #define lines.
MacroName == "M"

BodyWord == "x"

\* line.rstrip(): the text of a line, a trailing backslash included.
LineTokens(line) ==
    CASE line.kind = "if"         -> <<"#if", line.arg>>
      [] line.kind = "else"       -> <<"#else">>
      [] line.kind = "endif"      -> <<"#endif">>
      [] line.kind = "define"     -> <<"#define", line.arg, BodyWord>>
      [] line.kind = "definecont" -> <<"#define", line.arg, BodyWord, "\\">>
      [] OTHER                    -> <<line.arg>>

endswith_backslash(tokens) == tokens # <<>> /\ tokens[Len(tokens)] = "\\"

\* value[:-1].rstrip()
strip_backslash(tokens) ==
    IF endswith_backslash(tokens) THEN SubSeq(tokens, 1, Len(tokens) - 1) ELSE tokens

\* define_re.match(stripped) is not None
define_re_match(line) == line.kind \in {"define", "definecont"}

\* stripped.startswith('#')
startswith_hash(line) == line.kind # "text"

\* The policy of preprocess_filename: <<>> stands for config=None, <<c>> for
\* the Configuration c.
ConfigIsNone(config) == config = <<>>

\* Configuration.is_condition_true(directive) for an "#if name" line.
is_condition_true(config, line) == Condition(line.arg, TRUE) \in config[1]

\* A variant of HandledDirective that forgets the #endif lines.
HandledDirective_NoEndif(line, config) ==
    line.kind \in {"if", "else"} /\ ~ConfigIsNone(config)

\* Line 582: the line is handled as a conditional directive.
HandledDirective(line, config) == match_condition(line) /\ ~ConfigIsNone(config)

\* The number of substitutions expand_definitions tries (line 871).
MaxSubstitutions == 20000

\* The first token of the lines that names a macro of the table, if any.
FirstInvocation(lines, definitions) ==
    LET positions == UNION {{<<i, j>> : j \in 1..Len(lines[i])} : i \in 1..Len(lines)}
        hits == {p \in positions : lines[p[1]][p[2]] \in DOMAIN definitions}
    IN  IF hits = {} THEN <<0, 0>>
        ELSE CHOOSE p \in hits :
                 \A q \in hits : p[1] < q[1] \/ (p[1] = q[1] /\ p[2] <= q[2])

\* repl(m) for a parameter-less macro: the invocation is replaced by the
\* body lines joined with newlines, the text around it kept.
Substitute(lines, p, body) ==
    LET line == lines[p[1]]
        before == SubSeq(line, 1, p[2] - 1)
        after == SubSeq(line, p[2] + 1, Len(line))
        spliced == IF Len(body) = 1
                   THEN <<before \o body[1] \o after>>
                   ELSE <<before \o body[1]>> \o SubSeq(body, 2, Len(body) - 1)
                        \o <<body[Len(body)] \o after>>
    IN  SubSeq(lines, 1, p[1] - 1) \o spliced \o SubSeq(lines, p[1] + 1, Len(lines))

\* Lines 871-878 on the lines of the code.  A macro whose body names the
\* macro itself is substituted at every one of the MaxSubstitutions
\* iterations, and the loop ends in one of its two SyntaxErrors.
RECURSIVE ExpandLoop(_, _, _)
ExpandLoop(lines, definitions, left) ==
    LET p == FirstInvocation(lines, definitions)
        name == lines[p[1]][p[2]]
        body == definitions[name]
    IN  IF p = <<0, 0>> THEN [ok |-> TRUE, lines |-> lines]
        ELSE IF left = 0 \/ \E k \in 1..Len(body) : name \in Range(body[k])
        THEN [ok |-> FALSE, lines |-> <<>>]
        ELSE ExpandLoop(Substitute(lines, p, body), definitions, left - 1)

\* expand_definitions(code, definitions).split('\n'), with ok = FALSE for the
\* SyntaxError.
expand_definitions(code, definitions) ==
    IF DOMAIN definitions = {}
    THEN [ok |-> TRUE, lines |-> <<code>>]
    ELSE ExpandLoop(<<code>>, definitions, MaxSubstitutions)

Str_sourceline(source, sourceline) == [text |-> source, sourceline |-> sourceline]

VARIABLES
    \* preprocess_filename(filename, config)
    pfile,              \* the lines of the file
    config,             \* the policy: <<>> for None, <<c>> for Configuration c
    plinecount,         \* linecount
    current_name,       \* current_name: <<>> for None, <<name>> otherwise
    definitions,        \* macro name -> its body lines
    result,             \* the emitted lines, each a Str_sourceline
    including_section,  \* the stack of booleans
    ppc                 \* "scan" | "done" | "SyntaxError"

preVars == <<pfile, config, plinecount, current_name, definitions, result,
             including_section, ppc>>

PreIdle ==
    /\ pfile = <<>>
    /\ config = <<>>
    /\ plinecount = 0
    /\ current_name = <<>>
    /\ definitions = <<>>
    /\ result = <<>>
    /\ including_section = <<>>
    /\ ppc = "off"

(***************************************************************************)
(* SpecPre: preprocess_filename on every short file under every policy.    *)
(***************************************************************************)
\* The longest file the preprocessor is run on.
MaxPreLines == 4

PreLines ==
    DirectiveLines \cup {Line("text", MacroName), Line("define", MacroName),
                         Line("definecont", MacroName)}

\* The complete Configurations over all the names of the model.
CompleteConfigurations ==
    {AssignmentConfiguration(a) : a \in [NameSet -> BOOLEAN]}

Policies == {<<>>} \cup {<<c>> : c \in CompleteConfigurations}

PreInit ==
    /\ pfile \in SeqsUpTo(PreLines, MaxPreLines)
    /\ config \in Policies
    /\ plinecount = 0
    /\ current_name = <<>>
    /\ definitions = <<>>
    /\ result = <<>>
    /\ including_section = <<>>
    /\ ppc = "scan"

\* The line about to be read.
NextLine == pfile[plinecount + 1]

Top(stack) == stack[Len(stack)]

Pop(stack) == SubSeq(stack, 1, Len(stack) - 1)

\* Lines 555-562: the line continues the #define named current_name.
PreContinuation ==
    /\ ppc = "scan" /\ plinecount < Len(pfile)
    /\ current_name # <<>>
    /\ LET name == current_name[1]
           value == LineTokens(NextLine)
       IN  /\ current_name' = IF endswith_backslash(value) THEN current_name ELSE <<>>
           /\ definitions' =
                  [definitions EXCEPT ![name] = Append(@, strip_backslash(value))]
    /\ plinecount' = plinecount + 1
    /\ UNCHANGED <<pfile, config, result, including_section, ppc>>

\* Line 564: #define is looked for only outside a false section.
Including == IF including_section = <<>> THEN TRUE ELSE Top(including_section)

\* Lines 568-579: a #define line.
PreDefine ==
    /\ ppc = "scan" /\ plinecount < Len(pfile)
    /\ current_name = <<>>
    /\ Including /\ define_re_match(NextLine)
    /\ LET name == NextLine.arg
           value == SubSeq(LineTokens(NextLine), 3, Len(LineTokens(NextLine)))
       IN  /\ current_name' = IF endswith_backslash(value) THEN <<name>> ELSE <<>>
           /\ definitions' =
                  [n \in DOMAIN definitions \cup {name} |->
                      IF n = name THEN <<strip_backslash(value)>> ELSE definitions[n]]
    /\ plinecount' = plinecount + 1
    /\ UNCHANGED <<pfile, config, result, including_section, ppc>>

\* Lines 581-597: a conditional directive under a Configuration.
PreDirective ==
    /\ ppc = "scan" /\ plinecount < Len(pfile)
    /\ current_name = <<>>
    /\ ~(Including /\ define_re_match(NextLine))
    /\ HandledDirective(NextLine, config)
    /\ CASE NextLine.kind = "else" ->
              IF including_section = <<>>
              THEN ppc' = "SyntaxError" /\ UNCHANGED including_section
              ELSE /\ including_section' =
                          Append(Pop(including_section), ~Top(including_section))
                   /\ UNCHANGED ppc
         [] NextLine.kind = "endif" ->
              IF including_section = <<>>
              THEN ppc' = "SyntaxError" /\ UNCHANGED including_section
              ELSE including_section' = Pop(including_section) /\ UNCHANGED ppc
         [] OTHER ->
              /\ including_section' =
                     Append(including_section, is_condition_true(config, NextLine))
              /\ UNCHANGED ppc
    /\ plinecount' = plinecount + 1
    /\ UNCHANGED <<pfile, config, current_name, definitions, result>>

\* Lines 599-600: the line is skipped because the last #if was false.
PreSkip ==
    /\ ppc = "scan" /\ plinecount < Len(pfile)
    /\ current_name = <<>>
    /\ ~(Including /\ define_re_match(NextLine))
    /\ ~HandledDirective(NextLine, config)
    /\ ~Including
    /\ plinecount' = plinecount + 1
    /\ UNCHANGED <<pfile, config, current_name, definitions, result,
                   including_section, ppc>>

\* Lines 602-611: the line is emitted, verbatim when it starts with '#' and
\* macro-expanded otherwise.
PreEmit ==
    /\ ppc = "scan" /\ plinecount < Len(pfile)
    /\ current_name = <<>>
    /\ ~(Including /\ define_re_match(NextLine))
    /\ ~HandledDirective(NextLine, config)
    /\ Including
    /\ IF startswith_hash(NextLine)
       THEN /\ result' = Append(result, Str_sourceline(LineTokens(NextLine), plinecount))
            /\ UNCHANGED ppc
       ELSE LET e == expand_definitions(LineTokens(NextLine), definitions)
            IN  IF e.ok
                THEN /\ result' = result \o [k \in 1..Len(e.lines) |->
                                               Str_sourceline(e.lines[k], plinecount)]
                     /\ UNCHANGED ppc
                ELSE ppc' = "SyntaxError" /\ UNCHANGED result
    /\ plinecount' = plinecount + 1
    /\ UNCHANGED <<pfile, config, current_name, definitions, including_section>>

\* Line 618: the end of the file; result is returned.
PreReturn ==
    /\ ppc = "scan" /\ plinecount = Len(pfile)
    /\ ppc' = "done"
    /\ UNCHANGED <<pfile, config, plinecount, current_name, definitions, result,
                   including_section>>

\* The emitted lines that stem from a conditional directive line.
EmittedDirectives ==
    {k \in 1..Len(result) : match_condition(pfile[result[k].sourceline + 1])}

\* C10 as claimed: under every policy, config=None included, no conditional
\* directive line appears in the emitted output.
C10_DirectivesNeverEmitted == EmittedDirectives = {}

\* A step that reads a conditional directive line outside a #define
\* continuation.
C10_DirectiveStep ==
    /\ ppc = "scan" /\ plinecount < Len(pfile)
    /\ current_name = <<>>
    /\ match_condition(NextLine)
    /\ plinecount' = plinecount + 1

C10_StepEffect ==
    /\ definitions' = definitions /\ current_name' = current_name
    /\ IF ConfigIsNone(config)
       THEN /\ including_section' = including_section
            /\ result' = Append(result, Str_sourceline(LineTokens(NextLine), plinecount))
       ELSE result' = result

\* C10, amended: under a Configuration no conditional directive line is
\* ever emitted, and one read outside a #define continuation changes
\* nothing but the including stack; under config=None the including stack
\* stays empty and such a line is emitted verbatim.
C10_DirectivesPerPolicy ==
    /\ [](IF ConfigIsNone(config)
          THEN including_section = <<>>
          ELSE EmittedDirectives = {})
    /\ [][C10_DirectiveStep => C10_StepEffect]_preVars

\* A Configuration run that read an #if and its #endif, took the branch and
\* returned the one content line in it.
C10_Witness ==
    /\ ppc = "done"
    /\ ~ConfigIsNone(config)
    /\ Len(pfile) = 3
    /\ pfile[1].kind = "if" /\ pfile[2].kind = "text" /\ pfile[3].kind = "endif"
    /\ Len(result) = 1

(***************************************************************************)
(* The generation phase: _run_cython_on_files starts one thread per        *)
(* Configuration; each runs _run_cython_on_file and, in it, run_cython     *)
(* with the shared cache.                                                  *)
(***************************************************************************)
\* Str(string, tags), with a Configuration turned into a one-tag group.
Str(string, tags) == [text |-> string, tags |-> tags]

\* Configuration.attach_tags(text) on the lines of the text.
attach_tags(configuration, lines) ==
    [k \in 1..Len(lines) |-> Str(lines[k], ConfigurationGroups(<<configuration>>))]

\* str equality of two lists of Str: the tags take no part in it.
Texts(tagged) == [k \in 1..Len(tagged) |-> tagged[k].text]

VARIABLES
    gconfigs,         \* the Configurations in the order of sorted(preprocessed.items())
    gsource,          \* per thread: the expanded text, which stands for its md5
    cython,           \* the external generator: expanded text -> generated lines
    started,          \* how many threads the first loop has started
    tpc,              \* per thread: "new" | "get" | "system" | "store" | "done"
    tvalue,           \* per thread: t.value[0], the tagged output; None until run() assigns
    attempts,         \* per thread: how often it ran the generator
    completed,        \* the threads whose run() has ended, in the order they ended
    cache,            \* the cache dictionary of run_cython
    invocations,      \* per expanded text: how often system() ran the generator
    same_results,     \* same_results
    ordered_results,  \* ordered_results
    gpc               \* "threads" | "joined" | "combined" | "done" | "merge" | "TypeError"

genVars == <<gconfigs, gsource, cython, started, tpc, tvalue, attempts, completed,
             cache, invocations, same_results, ordered_results, gpc>>

GenIdle ==
    /\ gconfigs = <<>>
    /\ gsource = <<>>
    /\ cython = <<>>
    /\ started = 0
    /\ tpc = <<>>
    /\ tvalue = <<>>
    /\ attempts = <<>>
    /\ completed = <<>>
    /\ cache = <<>>
    /\ invocations = <<>>
    /\ same_results = <<>>
    /\ ordered_results = <<>>
    /\ gpc = "off"

(***************************************************************************)
(* SpecGen: the threads of the generation phase in every interleaving.     *)
(***************************************************************************)
\* The most Configurations (threads) of a run.
MaxThreads == 3

\* The number of distinct expanded texts.
NumSources == 2

\* The texts the generator can produce.
GeneratedTexts == {<<"x">>, <<"y">>}

\* The complete Configurations of a file with the names A and B, and of a
\* file with the one name A, in one dispatch order each.
TwoNameConfigurations ==
    <<{Condition("A", FALSE), Condition("B", FALSE)},
      {Condition("A", FALSE), Condition("B", TRUE)},
      {Condition("A", TRUE), Condition("B", FALSE)},
      {Condition("A", TRUE), Condition("B", TRUE)}>>

OneNameConfigurations == <<{Condition("A", FALSE)}, {Condition("A", TRUE)}>>

GenConfigLists ==
    {SubSeq(TwoNameConfigurations, 1, n) : n \in 2..MaxThreads}
    \cup {OneNameConfigurations}

Threads == 1..Len(gconfigs)

\* Line 22: the class attribute Thread.value, which a thread keeps until
\* run() assigns the target's result.  Every output the generator produces
\* has a line, so no t.value[0] is the empty list.
None == <<>>

\* The expanded texts of n threads.  A text stands for its md5, and the
\* texts are numbered in the order the dispatch order first meets them.
ExpandedTexts(n) ==
    {g \in [1..n -> 1..NumSources] :
        \A t \in 1..n : \A h \in 1..(g[t] - 1) : \E u \in 1..(t - 1) : g[u] = h}

GenInit ==
    /\ gconfigs \in {l \in GenConfigLists : Len(l) <= MaxThreads}
    /\ gsource \in ExpandedTexts(Len(gconfigs))
    /\ cython \in [Range(gsource) -> GeneratedTexts]
    /\ started = 0
    /\ tpc = [t \in 1..Len(gconfigs) |-> "new"]
    /\ tvalue = [t \in 1..Len(gconfigs) |-> None]
    /\ attempts = [t \in 1..Len(gconfigs) |-> 0]
    /\ completed = <<>>
    /\ cache = <<>>
    /\ invocations = [h \in Range(gsource) |-> 0]
    /\ same_results = <<>>
    /\ ordered_results = <<>>
    /\ gpc = "threads"

\* Lines 449-456: the next thread is created and started.
ThreadStart ==
    /\ gpc = "threads"
    /\ started < Len(gconfigs)
    /\ started' = started + 1
    /\ tpc' = [tpc EXCEPT ![started + 1] = "get"]
    /\ UNCHANGED <<gconfigs, gsource, cython, tvalue, attempts, completed, cache,
                   invocations, same_results, ordered_results, gpc>>

\* Lines 906-912: result = cache.get(sourcehash); a hit is returned.
RunCythonGet(t) ==
    /\ tpc[t] = "get"
    /\ IF gsource[t] \in DOMAIN cache
       THEN /\ tpc' = [tpc EXCEPT ![t] = "done"]
            /\ tvalue' = [tvalue EXCEPT ![t] = attach_tags(gconfigs[t], cache[gsource[t]])]
            /\ completed' = Append(completed, t)
       ELSE /\ tpc' = [tpc EXCEPT ![t] = "system"]
            /\ UNCHANGED <<tvalue, completed>>
    /\ UNCHANGED <<gconfigs, gsource, cython, started, attempts, cache, invocations,
                   same_results, ordered_results, gpc>>

\* Lines 913-914 and 920-933: system(command, comment) runs the generator.
\* When it exits non-zero, check_call raises CalledProcessError, system
\* re-raises it, nothing on the way up catches it and run() ends at line 31
\* without assigning self.value.
RunCythonSystem(t) ==
    /\ tpc[t] = "system"
    /\ invocations' = [invocations EXCEPT ![gsource[t]] = @ + 1]
    /\ attempts' = [attempts EXCEPT ![t] = @ + 1]
    /\ \E exit_zero \in BOOLEAN :
           IF exit_zero
           THEN /\ tpc' = [tpc EXCEPT ![t] = "store"]
                /\ UNCHANGED completed
           ELSE /\ tpc' = [tpc EXCEPT ![t] = "raised"]
                /\ completed' = Append(completed, t)
    /\ UNCHANGED <<gconfigs, gsource, cython, started, tvalue, cache,
                   same_results, ordered_results, gpc>>

\* Lines 915-917 and 442: the result is cached and returned.
RunCythonStore(t) ==
    /\ tpc[t] = "store"
    /\ cache' = [h \in DOMAIN cache \cup {gsource[t]} |->
                    IF h = gsource[t] THEN cython[h] ELSE cache[h]]
    /\ tvalue' = [tvalue EXCEPT ![t] = attach_tags(gconfigs[t], cython[gsource[t]])]
    /\ tpc' = [tpc EXCEPT ![t] = "done"]
    /\ completed' = Append(completed, t)
    /\ UNCHANGED <<gconfigs, gsource, cython, started, attempts, invocations,
                   same_results, ordered_results, gpc>>

\* Lines 458-459: every thread is joined.
JoinThreads ==
    /\ gpc = "threads"
    /\ started = Len(gconfigs)
    /\ \A t \in Threads : tpc[t] \in {"done", "raised"}
    /\ gpc' = "joined"
    /\ UNCHANGED <<gconfigs, gsource, cython, started, tpc, tvalue, attempts,
                   completed, cache, invocations, same_results, ordered_results>>

\* Lines 471-474: the lines of two outputs combined; ok = FALSE when
\* simplify_tags raises.
RECURSIVE CombineLines(_, _)
CombineLines(tagged_output, other_tagged_output) ==
    IF tagged_output = <<>> \/ other_tagged_output = <<>>
    THEN [ok |-> TRUE, lines |-> <<>>]
    ELSE LET line_a == Head(tagged_output)
             line_b == Head(other_tagged_output)
             combined_tags == simplify_tags(GroupAdd(line_a.tags, line_b.tags))
             rest == CombineLines(Tail(tagged_output), Tail(other_tagged_output))
         IN  IF combined_tags.ok /\ rest.ok
             THEN [ok |-> TRUE,
                   lines |-> <<Str(line_a.text, combined_tags.tags)>> \o rest.lines]
             ELSE [ok |-> FALSE, lines |-> <<>>]

\* t.value is still None.
IsNone_Never(value) == FALSE

IsNone(value) == value = None

\* Lines 447-456: the list `threads`, the threads in the order the first
\* loop created and started them.
threads_ByCompletion == completed

threads == [k \in 1..started |-> k]

\* t.value[0] and t.value[2] for t in threads.
ThreadValues == [k \in 1..Len(threads) |-> tvalue[threads[k]]]

ThreadSources == [k \in 1..Len(threads) |-> gsource[threads[k]]]

\* Lines 461-475: the loop that fills same_results, from thread t on.
\* t.value[2] at line 463 raises TypeError when t.value is None.
RECURSIVE SameResultsLoop(_, _, _, _)
SameResultsLoop(t, values, sources, same) ==
    IF t > Len(values) THEN [ok |-> TRUE, same |-> same]
    ELSE IF IsNone(values[t]) THEN [ok |-> FALSE, same |-> same]
    ELSE LET sourcehash == sources[t]
         IN  IF sourcehash \notin DOMAIN same
             THEN SameResultsLoop(t + 1, values, sources,
                      [h \in DOMAIN same \cup {sourcehash} |->
                          IF h = sourcehash THEN values[t] ELSE same[h]])
             ELSE LET combined == CombineLines(values[t], same[sourcehash])
                  IN  IF combined.ok
                      THEN SameResultsLoop(t + 1, values, sources,
                               [same EXCEPT ![sourcehash] = combined.lines])
                      ELSE [ok |-> FALSE, same |-> same]

CombineSameResults ==
    /\ gpc = "joined"
    /\ LET r == SameResultsLoop(1, ThreadValues, ThreadSources, <<>>)
       IN  /\ same_results' = r.same
           /\ gpc' = IF r.ok THEN "combined" ELSE "TypeError"
    /\ UNCHANGED <<gconfigs, gsource, cython, started, tpc, tvalue, attempts,
                   completed, cache, invocations, ordered_results>>

\* Lines 478-481: the loop that fills ordered_results, from thread t on.
RECURSIVE OrderedResultsLoop(_, _, _, _, _)
OrderedResultsLoop(t, values, sources, same, ordered) ==
    IF t > Len(values) THEN ordered
    ELSE IF \A k \in 1..Len(ordered) : Texts(ordered[k]) # Texts(values[t])
    THEN OrderedResultsLoop(t + 1, values, sources, same,
                            Append(ordered, same[sources[t]]))
    ELSE OrderedResultsLoop(t + 1, values, sources, same, ordered)

OrderResults ==
    /\ gpc = "combined"
    /\ ordered_results' =
           OrderedResultsLoop(1, ThreadValues, ThreadSources, same_results, <<>>)
    /\ gpc' = "done"
    /\ UNCHANGED <<gconfigs, gsource, cython, started, tpc, tvalue, attempts,
                   completed, cache, invocations, same_results>>

\* Lines 516-519: _run_cython_on_files has returned the sources and
\* process_filename calls generate_merged on them; the merged text is
\* written (line 521) only after that call.
GenerateMerged ==
    /\ gpc = "done"
    /\ gpc' = "merge"
    /\ UNCHANGED <<gconfigs, gsource, cython, started, tpc, tvalue, attempts,
                   completed, cache, invocations, same_results, ordered_results>>

\* C8: under every interleaving of the threads the generator is invoked at
\* most once per distinct content hash.
C8_OncePerHash == \A h \in DOMAIN invocations : invocations[h] <= 1

\* A group is satisfied under a complete Configuration when one of its
\* Configurations is a subset of it (format_tags: the || of the && terms).
Satisfied(group, configuration) ==
    \E k \in 1..Len(group) : group[k] \subseteq configuration

\* The results handed to the merge that hold the generated text of thread t.
ResultsWithTextOf(t) ==
    {k \in 1..Len(ordered_results) : Texts(ordered_results[k]) = Texts(tvalue[t])}

\* C9: for two distinct Configurations whose generated text is
\* byte-identical, the text enters the merge exactly once and each of its
\* lines carries a tag group holding both Configurations.
C9_IdenticalTextOnceWithBothTags ==
    gpc = "done" =>
        \A t1, t2 \in Threads :
            (t1 # t2 /\ Texts(tvalue[t1]) = Texts(tvalue[t2])) =>
                /\ Cardinality(ResultsWithTextOf(t1)) = 1
                /\ \A k \in ResultsWithTextOf(t1) :
                       \A n \in 1..Len(ordered_results[k]) :
                           /\ Satisfied(ordered_results[k][n].tags, gconfigs[t1])
                           /\ Satisfied(ordered_results[k][n].tags, gconfigs[t2])

(***************************************************************************)
(* The merge engine: _imerge over the opcodes of difflib.SequenceMatcher.  *)
(***************************************************************************)
Min(x, y) == IF x < y THEN x ELSE y

\* SequenceMatcher.find_longest_match without junk: the longest block of
\* lines with equal text; of those the one that starts earliest in a, and
\* of those the one that starts earliest in b.  <<i, j, 0>> stands for none.
find_longest_match(a, b) ==
    LET blocks == {m \in (1..Len(a)) \X (1..Len(b)) \X (1..Min(Len(a), Len(b))) :
                      /\ m[1] + m[3] - 1 <= Len(a)
                      /\ m[2] + m[3] - 1 <= Len(b)
                      /\ \A d \in 0..(m[3] - 1) :
                             a[m[1] + d].text = b[m[2] + d].text}
    IN  IF blocks = {} THEN <<1, 1, 0>>
        ELSE CHOOSE m \in blocks :
                 \A n \in blocks :
                     \/ m[3] > n[3]
                     \/ m[3] = n[3] /\ m[1] < n[1]
                     \/ m[3] = n[3] /\ m[1] = n[1] /\ m[2] <= n[2]

\* A variant of NonEqualRun that drops the lines of b.
NonEqualRun_DropB(a, b) == a

\* Lines 697-700: a run that is not 'equal': the lines of a, then those of b.
NonEqualRun(a, b) == a \o b

\* A variant of EqualRun that keeps the tags of a alone.
EqualRun_TagsOfA(a, b) == a

\* Lines 688-695: an 'equal' run: the line of a with both tag groups added.
EqualRun(a, b) ==
    [k \in 1..Len(a) |-> Str(a[k].text, GroupAdd(a[k].tags, b[k].tags))]

\* _imerge(a, b): get_opcodes() recurses to the left and to the right of the
\* longest match; where nothing matches the run is 'replace', 'delete' or
\* 'insert'.
RECURSIVE _imerge(_, _)
_imerge(a, b) ==
    LET m == find_longest_match(a, b)
        i == m[1]
        j == m[2]
        k == m[3]
    IN  IF k = 0 THEN NonEqualRun(a, b)
        ELSE _imerge(SubSeq(a, 1, i - 1), SubSeq(b, 1, j - 1))
             \o EqualRun(SubSeq(a, i, i + k - 1), SubSeq(b, j, j + k - 1))
             \o _imerge(SubSeq(a, i + k, Len(a)), SubSeq(b, j + k, Len(b)))

\* Line 640: every line with its tag group simplified; ok = FALSE when
\* simplify_tags raises.
RECURSIVE SimplifyLines(_)
SimplifyLines(lines) ==
    IF lines = <<>> THEN [ok |-> TRUE, lines |-> <<>>]
    ELSE LET tags == simplify_tags(Head(lines).tags)
             rest == SimplifyLines(Tail(lines))
         IN  IF tags.ok /\ rest.ok
             THEN [ok |-> TRUE,
                   lines |-> <<Str(Head(lines).text, tags.tags)>> \o rest.lines]
             ELSE [ok |-> FALSE, lines |-> <<>>]

(***************************************************************************)
(* The directive regenerator.                                              *)
(***************************************************************************)
\* A variant of exact_reverse that is never truthy.
exact_reverse_Never(self, tags2) == FALSE

\* ConfigurationGroups.exact_reverse(tags2), truthy only for two groups of
\* one single-condition Configuration each, same name, opposite values.
exact_reverse(self, tags2) ==
    /\ self # <<>> /\ tags2 # <<>>
    /\ Len(self) = 1 /\ Len(tags2) = 1
    /\ Cardinality(self[1]) = 1 /\ Cardinality(tags2[1]) = 1
    /\ \E c \in self[1] : tags2[1] = {inverted(c)}

\* The items produce_preprocessor yields: '#if <tags>', '#else', '#endif'
\* and the lines themselves.
Directive(kind, tags) == [kind |-> kind, text |-> "", tags |-> tags]

Content(line) == [kind |-> "line", text |-> line.text, tags |-> line.tags]

\* Lines 747-760: what one line of the iterable yields, state being the
\* group of the line before it (the empty group for None).
Yielded(line, state) ==
    LET key == line.tags
    IN  IF key = state THEN <<Content(line)>>
        ELSE (IF exact_reverse(key, state)
              THEN <<Directive("else", state)>>
              ELSE (IF state # <<>> THEN <<Directive("endif", state)>> ELSE <<>>)
                   \o (IF key # <<>> THEN <<Directive("if", key)>> ELSE <<>>))
             \o <<Content(line)>>

VARIABLES
    \* generate_merged(sources)
    msources,   \* sources of merge: the tagged sequences still to be merged
    mconfigs,   \* the Configuration each source was generated for
    moriginal,  \* the sources generate_merged was called with
    groups,     \* groups of merge: the pairs handed to pool.imap
    mparts,     \* per element of msources: the original sources merged into it
    gparts,     \* per pair of groups: the same, for its two sequences
    mcalls,     \* the _merge calls made so far, each as the parts of its operands
    merged,     \* what merge returned
    mline,      \* how many lines produce_preprocessor has consumed
    state,      \* state of produce_preprocessor (the empty group for None)
    output,     \* the items produce_preprocessor has yielded
    mpc         \* "enter" | "pairing" | "reducing" | "produce" | "done" | an error

mergeVars == <<msources, mconfigs, moriginal, groups, mparts, gparts, mcalls, merged,
               mline, state, output, mpc>>

\* The record of which sources each sequence was merged from.
mergeParts == <<mparts, gparts, mcalls>>

MergeIdle ==
    /\ msources = <<>>
    /\ mconfigs = <<>>
    /\ moriginal = <<>>
    /\ groups = <<>>
    /\ mparts = <<>>
    /\ gparts = <<>>
    /\ mcalls = <<>>
    /\ merged = <<>>
    /\ mline = 0
    /\ state = <<>>
    /\ output = <<>>
    /\ mpc = "off"

(***************************************************************************)
(* SpecMerge: generate_merged on every short list of tagged sequences.     *)
(***************************************************************************)
\* The most tagged sequences handed to generate_merged.
MaxSources == 3

\* The most lines of all the sequences together.
MaxTotalLines == 4

\* The texts of the generated lines.
LineTexts == {"x", "y", "z"}

RECURSIVE TotalLen(_)
TotalLen(ss) == IF ss = <<>> THEN 0 ELSE Len(Head(ss)) + TotalLen(Tail(ss))

\* Every list of n sequences of line texts with at most total lines in all.
RECURSIVE TextLists(_, _)
TextLists(n, total) ==
    IF n = 0 THEN {<<>>}
    ELSE UNION {{<<first>> \o rest : rest \in TextLists(n - 1, total - Len(first))} :
                   first \in SeqsUpTo(LineTexts, total)}

\* The tags of the sources: the Configurations of a two-name file or of a
\* one-name file, one per source.
MergeConfigLists ==
    {SubSeq(TwoNameConfigurations, 1, n) : n \in 1..Min(MaxSources, 4)}
    \cup {OneNameConfigurations}

TaggedSources(configs, texts) ==
    [n \in 1..Len(configs) |-> attach_tags(configs[n], texts[n])]

MergeInit ==
    /\ \E configs \in MergeConfigLists :
           \E texts \in TextLists(Len(configs), MaxTotalLines) :
               /\ msources = TaggedSources(configs, texts)
               /\ mconfigs = configs
               /\ moriginal = TaggedSources(configs, texts)
               /\ mparts = [n \in 1..Len(configs) |-> {n}]
    /\ groups = <<>>
    /\ gparts = <<>>
    /\ mcalls = <<>>
    /\ merged = <<>>
    /\ mline = 0
    /\ state = <<>>
    /\ output = <<>>
    /\ mpc = "enter"

\* Lines 637-640: merge is entered; one source is returned with its tags
\* simplified.
MergeEnter ==
    /\ mpc = "enter"
    /\ IF Len(msources) = 0
       THEN mpc' = "IndexError" /\ UNCHANGED merged
       ELSE IF Len(msources) = 1
       THEN LET r == SimplifyLines(msources[1])
            IN  /\ merged' = r.lines
                /\ mpc' = IF r.ok THEN "produce" ELSE "TypeError"
       ELSE mpc' = "pairing" /\ UNCHANGED merged
    /\ UNCHANGED <<msources, mconfigs, moriginal, groups, mergeParts, mline, state,
                   output>>

\* Lines 655-657: one, two = sources.pop(), sources.pop()
MergePop ==
    /\ mpc = "pairing"
    /\ LET n == Len(msources)
       IN  /\ groups' = Append(groups, <<msources[n], msources[n - 1]>>)
           /\ msources' = SubSeq(msources, 1, n - 2)
           /\ gparts' = Append(gparts, <<mparts[n], mparts[n - 1]>>)
           /\ mparts' = SubSeq(mparts, 1, n - 2)
           /\ mpc' = IF n - 2 >= 2 THEN "pairing" ELSE "reducing"
    /\ UNCHANGED <<mconfigs, moriginal, mcalls, merged, mline, state, output>>

\* Lines 661-668: the next result of pool.imap(_merge, groups) is appended
\* and, with two sources at hand, merged with the other one.
MergeImap ==
    /\ mpc = "reducing"
    /\ groups # <<>>
    /\ LET m == _imerge(Head(groups)[1], Head(groups)[2])
           appended == Append(msources, m)
           parts == Head(gparts)[1] \cup Head(gparts)[2]
       IN  IF Len(appended) = 2
           THEN /\ msources' = <<_imerge(appended[2], appended[1])>>
                /\ mparts' = <<parts \cup mparts[1]>>
                /\ mcalls' = mcalls \o <<Head(gparts), <<parts, mparts[1]>>>>
           ELSE /\ msources' = appended
                /\ mparts' = Append(mparts, parts)
                /\ mcalls' = Append(mcalls, Head(gparts))
    /\ groups' = Tail(groups)
    /\ gparts' = Tail(gparts)
    /\ UNCHANGED <<mconfigs, moriginal, merged, mline, state, output, mpc>>

\* Line 673: return merge(sources)
MergeRecurse ==
    /\ mpc = "reducing"
    /\ groups = <<>>
    /\ mpc' = "enter"
    /\ UNCHANGED <<msources, mconfigs, moriginal, groups, mergeParts, merged, mline,
                   state, output>>

\* Lines 746-760: produce_preprocessor takes the next line.
ProduceLine ==
    /\ mpc = "produce"
    /\ mline < Len(merged)
    /\ output' = output \o Yielded(merged[mline + 1], state)
    /\ state' = merged[mline + 1].tags
    /\ mline' = mline + 1
    /\ UNCHANGED <<msources, mconfigs, moriginal, groups, mergeParts, merged, mpc>>

\* Lines 761-762: the open group is closed at the end of the input.
ProduceEnd ==
    /\ mpc = "produce"
    /\ mline = Len(merged)
    /\ output' = IF state # <<>> THEN Append(output, Directive("endif", state))
                 ELSE output
    /\ mpc' = "done"
    /\ UNCHANGED <<msources, mconfigs, moriginal, groups, mergeParts, merged, mline,
                   state>>

\* The lines a C preprocessor keeps of the items under a complete
\* Configuration; keeping tells whether the open branch is taken.
RECURSIVE Kept(_, _, _)
Kept(items, configuration, keeping) ==
    IF items = <<>> THEN <<>>
    ELSE LET item == Head(items)
         IN  IF item.kind = "if"
             THEN Kept(Tail(items), configuration, Satisfied(item.tags, configuration))
             ELSE IF item.kind = "else"
             THEN Kept(Tail(items), configuration, ~Satisfied(item.tags, configuration))
             ELSE IF item.kind = "endif"
             THEN Kept(Tail(items), configuration, TRUE)
             ELSE (IF keeping THEN <<item.text>> ELSE <<>>)
                  \o Kept(Tail(items), configuration, keeping)

Evaluate(items, configuration) == Kept(items, configuration, TRUE)

MergeReturned == mpc \in {"done", "TypeError", "IndexError"}

(***************************************************************************)
(* SpecProduce: produce_preprocessor on every short tagged sequence.       *)
(***************************************************************************)
\* The longest tagged sequence handed to produce_preprocessor.
MaxProduceLen == 3

\* The tag groups of the lines: the empty group, the groups of one
\* single-condition Configuration, a group of one two-condition
\* Configuration and a group of two Configurations.
ProduceGroups ==
    {ConfigurationGroups(<<>>),
     ConfigurationGroups(<<{Condition("A", TRUE)}>>),
     ConfigurationGroups(<<{Condition("A", FALSE)}>>),
     ConfigurationGroups(<<{Condition("B", TRUE)}>>),
     ConfigurationGroups(<<{Condition("A", TRUE), Condition("B", TRUE)}>>),
     ConfigurationGroups(<<{Condition("A", TRUE)}, {Condition("B", FALSE)}>>)}

ProduceInit ==
    /\ merged \in SeqsUpTo({Str("x", tags) : tags \in ProduceGroups}, MaxProduceLen)
    /\ msources = <<>>
    /\ mconfigs = <<>>
    /\ moriginal = <<>>
    /\ groups = <<>>
    /\ mparts = <<>>
    /\ gparts = <<>>
    /\ mcalls = <<>>
    /\ mline = 0
    /\ state = <<>>
    /\ output = <<>>
    /\ mpc = "produce"

(***************************************************************************)
(* SpecAssoc: the two pairing orders of _merge over three tagged           *)
(* sequences, each result normalised as merge returns it (line 640).       *)
(***************************************************************************)
VARIABLES
    asources,   \* the three tagged sequences A, B, C
    aleft,      \* _merge(_merge(A, B), C), once computed
    aright      \* _merge(A, _merge(B, C)), once computed

assocVars == <<asources, aleft, aright>>

Pending == [done |-> FALSE, ok |-> FALSE, lines |-> <<>>]

AssocIdle ==
    /\ asources = <<>>
    /\ aleft = Pending
    /\ aright = Pending

\* The Configurations of A, B and C.
AssocConfigurations == SubSeq(TwoNameConfigurations, 1, 3)

AssocInit ==
    /\ \E texts \in TextLists(3, MaxTotalLines) :
           asources = TaggedSources(AssocConfigurations, texts)
    /\ aleft = Pending
    /\ aright = Pending

Normalised(lines) ==
    LET r == SimplifyLines(lines)
    IN  [done |-> TRUE, ok |-> r.ok, lines |-> r.lines]

MergeLeftFirst ==
    /\ asources # <<>>
    /\ ~aleft.done
    /\ aleft' = Normalised(_imerge(_imerge(asources[1], asources[2]), asources[3]))
    /\ UNCHANGED <<asources, aright>>

MergeRightFirst ==
    /\ asources # <<>>
    /\ ~aright.done
    /\ aright' = Normalised(_imerge(asources[1], _imerge(asources[2], asources[3])))
    /\ UNCHANGED <<asources, aleft>>

\* The texts of the lines whose tag group is satisfied under a Configuration.
RECURSIVE Project(_, _)
Project(lines, configuration) ==
    IF lines = <<>> THEN <<>>
    ELSE (IF Satisfied(Head(lines).tags, configuration)
          THEN <<Head(lines).text>> ELSE <<>>)
         \o Project(Tail(lines), configuration)

(***************************************************************************)
(* SpecExpand: the loop of expand_definitions, one iteration a step.       *)
(***************************************************************************)
VARIABLES
    xdefs,   \* definitions: macro name -> its body lines
    xcode,   \* code, as lines of tokens
    xiter,   \* how many iterations of range(20000) have been completed
    xpc      \* "enter" | "loop" | "returned" | "InfiniteRecursion" | "TooManySubstitutions"

expandVars == <<xdefs, xcode, xiter, xpc>>

ExpandIdle ==
    /\ xdefs = <<>>
    /\ xcode = <<>>
    /\ xiter = 0
    /\ xpc = "off"

\* The most tokens of a macro body.
MaxBodyLen == 2

\* The most tokens of the line handed to expand_definitions.
MaxCodeLen == 1

\* The names of the macros and a word that names none.
MacroNames == {"M", "N"}

ExpandTokens == MacroNames \cup {BodyWord}

\* Every macro table: each name undefined or defined with a one-line body.
MacroTables ==
    UNION {[names -> {<<body>> : body \in NonEmptySeqsUpTo(ExpandTokens, MaxBodyLen)}] :
              names \in SUBSET MacroNames}

ExpandInit ==
    /\ xdefs \in MacroTables
    /\ xcode \in {<<code>> : code \in NonEmptySeqsUpTo(ExpandTokens, MaxCodeLen)}
    /\ xiter = 0
    /\ xpc = "enter"

\* A variant of Substituted that never reports a substitution.
Substituted_Never(p) == FALSE

\* Line 874: count > 0, subn has replaced an invocation.
Substituted(p) == p # <<0, 0>>

\* The tokens of all the lines of the code.
CodeTokens(code) == Len(Flatten(code))

\* The expanded code is followed up to this many tokens; a substitution
\* that would make it longer is left unexplored.
MaxExpandedLen == MaxCodeLen + 2 * MaxBodyLen

\* Lines 830-831: if not definitions: return code
ExpandEnter ==
    /\ xpc = "enter"
    /\ xpc' = IF DOMAIN xdefs = {} THEN "returned" ELSE "loop"
    /\ UNCHANGED <<xdefs, xcode, xiter>>

\* Lines 871-877: one iteration of the loop: subn(repl, code, count=1).
ExpandIteration ==
    /\ xpc = "loop"
    /\ xiter < MaxSubstitutions
    /\ LET p == FirstInvocation(xcode, xdefs)
           newcode == IF p = <<0, 0>> THEN xcode
                      ELSE Substitute(xcode, p, xdefs[xcode[p[1]][p[2]]])
       IN  /\ CodeTokens(newcode) <= MaxExpandedLen
           /\ IF xcode = newcode
              THEN /\ xpc' = IF Substituted(p) THEN "InfiniteRecursion" ELSE "returned"
                   /\ UNCHANGED <<xcode, xiter>>
              ELSE /\ xcode' = newcode
                   /\ xiter' = xiter + 1
                   /\ UNCHANGED xpc
    /\ UNCHANGED xdefs

\* Line 878: the loop has run out.
ExpandExhausted ==
    /\ xpc = "loop"
    /\ xiter = MaxSubstitutions
    /\ xpc' = "TooManySubstitutions"
    /\ UNCHANGED <<xdefs, xcode, xiter>>

(***************************************************************************)
(* SpecAlign: expand_to_match, one iteration of its loop a step.           *)
(***************************************************************************)
VARIABLES
    items,         \* items: per sequence, the lines not yet taken
    cfg2newlines,  \* cfg2newlines: per sequence, the rows built so far
    original,      \* the lines of each sequence as they were handed in
    lpc            \* "loop" | "returned"

alignVars == <<items, cfg2newlines, original, lpc>>

AlignIdle ==
    /\ items = <<>>
    /\ cfg2newlines = <<>>
    /\ original = <<>>
    /\ lpc = "off"

\* The most sequences (one per Configuration, one for None).
MaxSequences == 2

\* The most lines of a sequence.
MaxAlignLen == 3

\* The numbers of the source lines (linecount - 1 of preprocess_filename).
AlignSourceLines == {0, 1, 2}

\* Line 709: maxguard = 2 ** 30
maxguard == 1073741824

\* The lines preprocess_filename returns for a file: Str_sourceline values
\* whose source line numbers never decrease.
PreprocessedLines ==
    {s \in SeqsUpTo(AlignSourceLines, MaxAlignLen) :
        \A k \in 1..(Len(s) - 1) : s[k] <= s[k + 1]}

SourceLines(numbers) ==
    [k \in 1..Len(numbers) |-> Str_sourceline(<<BodyWord>>, numbers[k])]

AlignInit ==
    /\ \E n \in 1..MaxSequences :
           \E numbers \in [1..n -> PreprocessedLines] :
               /\ items = [c \in 1..n |-> SourceLines(numbers[c])]
               /\ original = [c \in 1..n |-> SourceLines(numbers[c])]
               /\ cfg2newlines = [c \in 1..n |-> <<>>]
    /\ lpc = "loop"

\* Line 727: the padding, a plain '\n' that has no sourceline.
Padding == [text |-> <<>>]

SetMin(S) == CHOOSE x \in S : \A y \in S : x <= y

SetMax(S) == CHOOSE x \in S : \A y \in S : x >= y

\* Lines 711-714: the least source line among the first lines left.
minimalsourceline ==
    SetMin({maxguard} \cup {items[c][1].sourceline :
                               c \in {d \in DOMAIN items : items[d] # <<>>}})

\* A variant of Taken that takes the first line of every sequence.
Taken_Any(c) == items[c] # <<>>

\* Lines 718-721: the sequences whose first line is taken in this iteration.
Taken(c) == items[c] # <<>> /\ items[c][1].sourceline <= minimalsourceline

\* A variant of PadTo that pads nothing.
PadTo_Nothing(newlines, number_of_lines) == newlines

\* Lines 725-727: newlines.extend(['\n'] * add)
PadTo(newlines, number_of_lines) ==
    newlines \o [k \in 1..(number_of_lines - Len(newlines)) |-> Padding]

\* A variant of AppendLine that puts the line before the rows built so far.
AppendLine_AtFront(newlines, line) == <<line>> \o newlines

\* Line 720: cfg2newlines[configuration].append(lines[0])
AppendLine(newlines, line) == Append(newlines, line)

\* Lines 711-727: one iteration that found a line to take.
AlignIteration ==
    /\ lpc = "loop"
    /\ minimalsourceline # maxguard
    /\ LET appended == [c \in DOMAIN items |->
                           IF Taken(c) THEN AppendLine(cfg2newlines[c], items[c][1])
                           ELSE cfg2newlines[c]]
           number_of_lines == SetMax({Len(appended[c]) : c \in DOMAIN items})
       IN  cfg2newlines' = [c \in DOMAIN items |-> PadTo(appended[c], number_of_lines)]
    /\ items' = [c \in DOMAIN items |-> IF Taken(c) THEN Tail(items[c]) ELSE items[c]]
    /\ UNCHANGED <<original, lpc>>

\* Lines 715-716 and 729: no line is left; cfg2newlines is returned.
AlignReturn ==
    /\ lpc = "loop"
    /\ minimalsourceline = maxguard
    /\ lpc' = "returned"
    /\ UNCHANGED <<items, cfg2newlines, original>>

(***************************************************************************)
(* SpecGroups: ConfigurationGroups.__add__ on two groups, in both orders.  *)
(***************************************************************************)
VARIABLES
    cga,          \* the group a
    cgb,          \* the group b
    cgab,         \* <<a + b>> once it is computed
    cgba          \* <<b + a>> once it is computed

groupVars == <<cga, cgb, cgab, cgba>>

GroupsIdle ==
    /\ cga = <<>>
    /\ cgb = <<>>
    /\ cgab = <<"off">>
    /\ cgba = <<"off">>

\* The longest list of Configurations an operand is built from.
MaxOperandLen == 1

\* Every group ConfigurationGroups.__new__ returns for a short list.
OperandGroups ==
    {ConfigurationGroups(tags) : tags \in SeqsUpTo(AllConfigurations, MaxOperandLen)}

GroupsInit ==
    /\ cga \in OperandGroups
    /\ cgb \in OperandGroups
    /\ cgab = <<>>
    /\ cgba = <<>>

\* a + b, as line 693 computes line_a_tags + line_b_tags.
AddAB ==
    /\ cgab = <<>>
    /\ cgab' = <<GroupAdd(cga, cgb)>>
    /\ UNCHANGED <<cga, cgb, cgba>>

\* b + a: the same two groups met in the other order.
AddBA ==
    /\ cgba = <<>>
    /\ cgba' = <<GroupAdd(cgb, cga)>>
    /\ UNCHANGED <<cga, cgb, cgab>>

(***************************************************************************)
(* SpecPair: one pairwise merge, _merge(a, b), on every two short tagged   *)
(* sequences.  As in merge, the lines of a carry groups over the           *)
(* Configurations merged into a, and those of b over the others.           *)
(***************************************************************************)
VARIABLES
    ia,         \* the tagged sequence a
    ib,         \* the tagged sequence b
    imerged     \* <<list(_imerge(a, b))>> once it is computed

pairVars == <<ia, ib, imerged>>

PairIdle ==
    /\ ia = <<>>
    /\ ib = <<>>
    /\ imerged = <<"off">>

\* The longest sequence handed to _merge.
MaxPairLen == 2

PairTexts == {"x", "y"}

\* The Configurations merged into a and into b.
ConfigurationsOfA == {TwoNameConfigurations[1], TwoNameConfigurations[2]}

ConfigurationsOfB == {TwoNameConfigurations[3], TwoNameConfigurations[4]}

\* The tag groups of the lines of a and of b: the group of one source and
\* the group two merged sources left on a common line.
GroupsOfA ==
    {ConfigurationGroups(<<TwoNameConfigurations[1]>>),
     GroupAdd(<<TwoNameConfigurations[2]>>, <<TwoNameConfigurations[1]>>)}

GroupsOfB ==
    {ConfigurationGroups(<<TwoNameConfigurations[3]>>),
     GroupAdd(<<TwoNameConfigurations[4]>>, <<TwoNameConfigurations[3]>>)}

PairInit ==
    /\ ia \in SeqsUpTo({Str(t, g) : t \in PairTexts, g \in GroupsOfA}, MaxPairLen)
    /\ ib \in SeqsUpTo({Str(t, g) : t \in PairTexts, g \in GroupsOfB}, MaxPairLen)
    /\ imerged = <<>>

\* Lines 676-681: _merge(a, b) returns list(_imerge(a, b)).
PairMerge ==
    /\ imerged = <<>>
    /\ imerged' = <<_imerge(ia, ib)>>
    /\ UNCHANGED <<ia, ib>>

(***************************************************************************)
(* SpecMacro: repl(m) on the invocation of a macro with parameters, one    *)
(* iteration of the inner expand_definitions a step.  The body of the      *)
(* macro and the text it becomes are sequences of tokens that a non-word   *)
(* character such as '+' separates.                                        *)
(***************************************************************************)
VARIABLES
    rparams,     \* definition['params']
    rarguments,  \* arguments: parse_parameter_values(m.group(3))
    rbody,       \* definition['lines'], the one line of the macro body
    rcode,       \* code of the inner expand_definitions
    riter,       \* the iterations the inner loop has made
    rpc          \* "repl" | "loop" | "returned" | an error

macroVars == <<rparams, rarguments, rbody, rcode, riter, rpc>>

MacroIdle ==
    /\ rparams = <<>>
    /\ rarguments = <<>>
    /\ rbody = <<>>
    /\ rcode = <<>>
    /\ riter = 0
    /\ rpc = "off"

\* The names a macro may give its parameters, in their order.
ParameterNames == <<"x", "y">>

\* A token that names no parameter.
Literal == "1"

\* The tokens of a macro body and of the arguments of a call.
MacroTokens == Range(ParameterNames) \cup {Literal}

\* The most tokens of the body of a macro.
MaxMacroBodyLen == 2

MacroInit ==
    /\ rparams \in {SubSeq(ParameterNames, 1, n) : n \in 1..Len(ParameterNames)}
    /\ rarguments \in NonEmptySeqsUpTo(MacroTokens, Len(ParameterNames))
    /\ rbody \in NonEmptySeqsUpTo(MacroTokens, MaxMacroBodyLen)
    /\ rcode = <<>>
    /\ riter = 0
    /\ rpc = "repl"

\* Lines 852-856: local_definitions[key] = {'lines': [value]} for the pairs
\* of zip(params, arguments).
local_definitions(params, arguments) ==
    [key \in Range(params) |->
        <<<<arguments[CHOOSE i \in 1..Len(params) : params[i] = key]>>>>]

\* Lines 845-861: the arity of the call is compared with the parameters;
\* when they agree the body is handed to expand_definitions with the
\* local definitions.
MacroRepl ==
    /\ rpc = "repl"
    /\ IF Len(rparams) = Len(rarguments)
       THEN /\ rcode' = <<rbody>>
            /\ rpc' = "loop"
       ELSE /\ rpc' = "SyntaxError"
            /\ UNCHANGED rcode
    /\ UNCHANGED <<rparams, rarguments, rbody, riter>>

\* Lines 871-877 of the inner call: subn(repl, code, count=1) replaces the
\* first parameter name of the code by its argument.
MacroIteration ==
    /\ rpc = "loop"
    /\ riter < MaxSubstitutions
    /\ LET local == local_definitions(rparams, rarguments)
           p == FirstInvocation(rcode, local)
           newcode == IF p = <<0, 0>> THEN rcode
                      ELSE Substitute(rcode, p, local[rcode[p[1]][p[2]]])
       IN  IF rcode = newcode
           THEN /\ rpc' = IF Substituted(p) THEN "InfiniteRecursion" ELSE "returned"
                /\ UNCHANGED <<rcode, riter>>
           ELSE /\ rcode' = newcode
                /\ riter' = riter + 1
                /\ UNCHANGED rpc
    /\ UNCHANGED <<rparams, rarguments, rbody>>

\* Line 878 of the inner call: the loop has run out.
MacroExhausted ==
    /\ rpc = "loop"
    /\ riter = MaxSubstitutions
    /\ rpc' = "TooManySubstitutions"
    /\ UNCHANGED <<rparams, rarguments, rbody, rcode, riter>>

(***************************************************************************)
(* The specifications: one phase of the program runs, the others are idle. *)
(***************************************************************************)
vars == <<simplifyVars, enumVars, preVars, genVars, mergeVars, assocVars,
         expandVars, alignVars, groupVars, pairVars, macroVars>>

\* ConfigurationGroups(tags).simplify_tags() alone.
OutsideSimplify == <<enumVars, preVars, genVars, mergeVars, assocVars,
                     expandVars, alignVars, groupVars, pairVars, macroVars>>

NextSimplify ==
    \/ SimplifyCall /\ UNCHANGED OutsideSimplify
    \/ SimplifyAgain /\ UNCHANGED OutsideSimplify

InitSimplify ==
    /\ SimplifyInit
    /\ EnumIdle
    /\ PreIdle
    /\ GenIdle
    /\ MergeIdle
    /\ AssocIdle
    /\ ExpandIdle
    /\ AlignIdle
    /\ GroupsIdle
    /\ PairIdle
    /\ MacroIdle

SpecSimplify == InitSimplify /\ [][NextSimplify]_vars

\* Configuration.get_complete_configurations(filename) alone.
OutsideEnum == <<simplifyVars, preVars, genVars, mergeVars, assocVars,
                 expandVars, alignVars, groupVars, pairVars, macroVars>>

NextEnum ==
    \/ GetConfigurationsLine /\ UNCHANGED OutsideEnum
    \/ GetConfigurationsReturn /\ UNCHANGED OutsideEnum
    \/ GetPermutations /\ UNCHANGED OutsideEnum
    \/ GetCompleteConfigurations /\ UNCHANGED OutsideEnum

InitEnum ==
    /\ EnumInit
    /\ SimplifyIdle
    /\ PreIdle
    /\ GenIdle
    /\ MergeIdle
    /\ AssocIdle
    /\ ExpandIdle
    /\ AlignIdle
    /\ GroupsIdle
    /\ PairIdle
    /\ MacroIdle

SpecEnum == InitEnum /\ [][NextEnum]_vars

\* preprocess_filename(filename, config) alone.
OutsidePre == <<simplifyVars, enumVars, genVars, mergeVars, assocVars,
                expandVars, alignVars, groupVars, pairVars, macroVars>>

NextPre ==
    \/ PreContinuation /\ UNCHANGED OutsidePre
    \/ PreDefine /\ UNCHANGED OutsidePre
    \/ PreDirective /\ UNCHANGED OutsidePre
    \/ PreSkip /\ UNCHANGED OutsidePre
    \/ PreEmit /\ UNCHANGED OutsidePre
    \/ PreReturn /\ UNCHANGED OutsidePre

InitPre ==
    /\ PreInit
    /\ SimplifyIdle
    /\ EnumIdle
    /\ GenIdle
    /\ MergeIdle
    /\ AssocIdle
    /\ ExpandIdle
    /\ AlignIdle
    /\ GroupsIdle
    /\ PairIdle
    /\ MacroIdle

SpecPre == InitPre /\ [][NextPre]_vars

\* _run_cython_on_files alone.
OutsideGen == <<simplifyVars, enumVars, preVars, mergeVars, assocVars,
                expandVars, alignVars, groupVars, pairVars, macroVars>>

NextGen ==
    \/ ThreadStart /\ UNCHANGED OutsideGen
    \/ (\E t \in Threads : RunCythonGet(t)) /\ UNCHANGED OutsideGen
    \/ (\E t \in Threads : RunCythonSystem(t)) /\ UNCHANGED OutsideGen
    \/ (\E t \in Threads : RunCythonStore(t)) /\ UNCHANGED OutsideGen
    \/ JoinThreads /\ UNCHANGED OutsideGen
    \/ CombineSameResults /\ UNCHANGED OutsideGen
    \/ OrderResults /\ UNCHANGED OutsideGen
    \/ GenerateMerged /\ UNCHANGED OutsideGen

InitGen ==
    /\ GenInit
    /\ SimplifyIdle
    /\ EnumIdle
    /\ PreIdle
    /\ MergeIdle
    /\ AssocIdle
    /\ ExpandIdle
    /\ AlignIdle
    /\ GroupsIdle
    /\ PairIdle
    /\ MacroIdle

SpecGen == InitGen /\ [][NextGen]_vars

\* generate_merged(sources) alone.
OutsideMerge == <<simplifyVars, enumVars, preVars, genVars, assocVars,
                  expandVars, alignVars, groupVars, pairVars, macroVars>>

NextMerge ==
    \/ MergeEnter /\ UNCHANGED OutsideMerge
    \/ MergePop /\ UNCHANGED OutsideMerge
    \/ MergeImap /\ UNCHANGED OutsideMerge
    \/ MergeRecurse /\ UNCHANGED OutsideMerge
    \/ ProduceLine /\ UNCHANGED OutsideMerge
    \/ ProduceEnd /\ UNCHANGED OutsideMerge

InitMerge ==
    /\ MergeInit
    /\ SimplifyIdle
    /\ EnumIdle
    /\ PreIdle
    /\ GenIdle
    /\ AssocIdle
    /\ ExpandIdle
    /\ AlignIdle
    /\ GroupsIdle
    /\ PairIdle
    /\ MacroIdle

SpecMerge == InitMerge /\ [][NextMerge]_vars

\* The two pairing orders of _merge alone.
OutsideAssoc == <<simplifyVars, enumVars, preVars, genVars, mergeVars,
                  expandVars, alignVars, groupVars, pairVars, macroVars>>

NextAssoc ==
    \/ MergeLeftFirst /\ UNCHANGED OutsideAssoc
    \/ MergeRightFirst /\ UNCHANGED OutsideAssoc

InitAssoc ==
    /\ AssocInit
    /\ SimplifyIdle
    /\ EnumIdle
    /\ PreIdle
    /\ GenIdle
    /\ MergeIdle
    /\ ExpandIdle
    /\ AlignIdle
    /\ GroupsIdle
    /\ PairIdle
    /\ MacroIdle

SpecAssoc == InitAssoc /\ [][NextAssoc]_vars

\* expand_definitions(code, definitions) alone.
OutsideExpand == <<simplifyVars, enumVars, preVars, genVars, mergeVars,
                   assocVars, alignVars, groupVars, pairVars, macroVars>>

NextExpand ==
    \/ ExpandEnter /\ UNCHANGED OutsideExpand
    \/ ExpandIteration /\ UNCHANGED OutsideExpand
    \/ ExpandExhausted /\ UNCHANGED OutsideExpand

InitExpand ==
    /\ ExpandInit
    /\ SimplifyIdle
    /\ EnumIdle
    /\ PreIdle
    /\ GenIdle
    /\ MergeIdle
    /\ AssocIdle
    /\ AlignIdle
    /\ GroupsIdle
    /\ PairIdle
    /\ MacroIdle

SpecExpand == InitExpand /\ [][NextExpand]_vars

\* expand_to_match(items) alone.
OutsideAlign == <<simplifyVars, enumVars, preVars, genVars, mergeVars,
                  assocVars, expandVars, groupVars, pairVars, macroVars>>

NextAlign ==
    \/ AlignIteration /\ UNCHANGED OutsideAlign
    \/ AlignReturn /\ UNCHANGED OutsideAlign

InitAlign ==
    /\ AlignInit
    /\ SimplifyIdle
    /\ EnumIdle
    /\ PreIdle
    /\ GenIdle
    /\ MergeIdle
    /\ AssocIdle
    /\ ExpandIdle
    /\ GroupsIdle
    /\ PairIdle
    /\ MacroIdle

SpecAlign == InitAlign /\ [][NextAlign]_vars

\* ConfigurationGroups.__add__ alone.
OutsideGroups == <<simplifyVars, enumVars, preVars, genVars, mergeVars,
                   assocVars, expandVars, alignVars, pairVars, macroVars>>

NextGroups ==
    \/ AddAB /\ UNCHANGED OutsideGroups
    \/ AddBA /\ UNCHANGED OutsideGroups

InitGroups ==
    /\ GroupsInit
    /\ SimplifyIdle
    /\ EnumIdle
    /\ PreIdle
    /\ GenIdle
    /\ MergeIdle
    /\ AssocIdle
    /\ ExpandIdle
    /\ AlignIdle
    /\ PairIdle
    /\ MacroIdle

SpecGroups == InitGroups /\ [][NextGroups]_vars

\* produce_preprocessor alone.
OutsideProduce == <<simplifyVars, enumVars, preVars, genVars, assocVars,
                    expandVars, alignVars, groupVars, pairVars, macroVars>>

NextProduce ==
    \/ ProduceLine /\ UNCHANGED OutsideProduce
    \/ ProduceEnd /\ UNCHANGED OutsideProduce

InitProduce ==
    /\ ProduceInit
    /\ SimplifyIdle
    /\ EnumIdle
    /\ PreIdle
    /\ GenIdle
    /\ AssocIdle
    /\ ExpandIdle
    /\ AlignIdle
    /\ GroupsIdle
    /\ PairIdle
    /\ MacroIdle

SpecProduce == InitProduce /\ [][NextProduce]_vars

\* _merge(a, b) alone.
OutsidePair == <<simplifyVars, enumVars, preVars, genVars, mergeVars,
                 assocVars, expandVars, alignVars, groupVars, macroVars>>

NextPair ==
    \/ PairMerge /\ UNCHANGED OutsidePair

InitPair ==
    /\ PairInit
    /\ SimplifyIdle
    /\ EnumIdle
    /\ PreIdle
    /\ GenIdle
    /\ MergeIdle
    /\ AssocIdle
    /\ ExpandIdle
    /\ AlignIdle
    /\ GroupsIdle
    /\ MacroIdle

SpecPair == InitPair /\ [][NextPair]_vars

\* repl(m) on the invocation of a macro with parameters alone.
OutsideMacro == <<simplifyVars, enumVars, preVars, genVars, mergeVars,
                  assocVars, expandVars, alignVars, groupVars, pairVars>>

NextMacro ==
    \/ MacroRepl /\ UNCHANGED OutsideMacro
    \/ MacroIteration /\ UNCHANGED OutsideMacro
    \/ MacroExhausted /\ UNCHANGED OutsideMacro

InitMacro ==
    /\ MacroInit
    /\ SimplifyIdle
    /\ EnumIdle
    /\ PreIdle
    /\ GenIdle
    /\ MergeIdle
    /\ AssocIdle
    /\ ExpandIdle
    /\ AlignIdle
    /\ GroupsIdle
    /\ PairIdle

SpecMacro == InitMacro /\ [][NextMacro]_vars

\* Either scanner of the conditional directives runs on a file:
\* get_complete_configurations or preprocess_filename.
NextScan ==
    \/ NextEnum
    \/ NextPre

InitScan ==
    \/ InitEnum
    \/ InitPre

SpecScan == InitScan /\ [][NextScan]_vars

(***************************************************************************)
(* Claims about merge and the regenerator.                                 *)
(***************************************************************************)
\* C1: round trip.  For any per-configuration generated sequences,
\* generate_merged returns, and evaluating the #if/#else/#endif structure it
\* emits under each original Configuration yields exactly the lines
\* generated for that Configuration, in their order.
C1_RoundTrip ==
    MergeReturned =>
        /\ mpc = "done"
        /\ \A n \in 1..Len(mconfigs) :
               Evaluate(output, mconfigs[n]) = Texts(moriginal[n])

\* The positions at which the two outputs of a single-condition file differ.
DifferingLines ==
    {k \in 1..Len(moriginal[1]) : moriginal[1][k].text # moriginal[2][k].text}

\* The two outputs generated for a file with the single condition A: the
\* same lines but for one, the line of the #if branch in one and the line
\* of the #else branch in the other, neither of which occurs elsewhere.
SingleConditionOutputs ==
    /\ mconfigs = OneNameConfigurations
    /\ Len(moriginal[1]) = Len(moriginal[2])
    /\ Cardinality(DifferingLines) = 1
    /\ \A k \in DifferingLines : \A i \in 1..Len(moriginal[1]) :
           i # k => /\ moriginal[1][i].text # moriginal[1][k].text
                    /\ moriginal[1][i].text # moriginal[2][k].text

\* C2: for the two outputs of a single-condition file the pipeline completes
\* and the merged output has exactly one #if / #else / #endif block, which
\* wraps only the two differing lines; every common line appears once,
\* outside the block.
C2_OneBlockAroundDifference ==
    (MergeReturned /\ SingleConditionOutputs) =>
        /\ mpc = "done"
        /\ LET k == CHOOSE d \in DifferingLines : TRUE
               n == Len(moriginal[1])
           IN  /\ Len(output) = n + 4
               /\ \A i \in 1..(k - 1) :
                      output[i].kind = "line" /\ output[i].text = moriginal[1][i].text
               /\ output[k].kind = "if"
               /\ output[k + 1].kind = "line"
               /\ output[k + 2].kind = "else"
               /\ output[k + 3].kind = "line"
               /\ output[k + 4].kind = "endif"
               /\ {output[k + 1].text, output[k + 3].text}
                      = {moriginal[1][k].text, moriginal[2][k].text}
               /\ \A i \in (k + 1)..n :
                      output[i + 4].kind = "line"
                      /\ output[i + 4].text = moriginal[1][i].text

C11_ExpansionTerminates ==
    /\ [](xiter <= MaxSubstitutions)
    /\ [](xpc = "returned" => FirstInvocation(xcode, xdefs) = <<0, 0>>)
    /\ [][xpc = "loop" =>
             \/ xpc' = "loop" /\ xiter' = xiter + 1
             \/ xpc' = "returned" /\ xcode' = xcode
             \/ xpc' = "InfiniteRecursion"
             \/ xpc' = "TooManySubstitutions" /\ xiter = MaxSubstitutions]_expandVars

\* Two mutually recursive macros have used up all the substitutions and the
\* loop has raised.
C11_Witness ==
    /\ xpc = "TooManySubstitutions"
    /\ xiter = MaxSubstitutions
    /\ DOMAIN xdefs = MacroNames
    /\ xdefs["M"] = <<(<<"N">>)>>
    /\ xdefs["N"] = <<(<<"M">>)>>

(***************************************************************************)
(* Claims about expand_to_match.                                           *)
(***************************************************************************)
IsPadding(entry) == DOMAIN entry = DOMAIN Padding

\* The rows of a sequence that hold a line of the given source line.
RowsOf(c, sourceline) ==
    {r \in 1..Len(cfg2newlines[c]) :
        /\ ~IsPadding(cfg2newlines[c][r])
        /\ cfg2newlines[c][r].sourceline = sourceline}

\* C12: in every row the entries that are not padding come from one source
\* line: the first line emitted for a source line is in the same row of
\* every sequence that holds that source line, and a sequence that lacks
\* the source line holds padding in that row.
C12_RowsAligned ==
    \A c, d \in DOMAIN cfg2newlines :
        \A n \in AlignSourceLines :
            RowsOf(c, n) # {} =>
                LET row == SetMin(RowsOf(c, n))
                IN  /\ row <= Len(cfg2newlines[d])
                    /\ \/ IsPadding(cfg2newlines[d][row])
                       \/ cfg2newlines[d][row].sourceline = n
                    /\ RowsOf(d, n) # {} => SetMin(RowsOf(d, n)) = row
                    /\ (\A k \in 1..Len(original[d]) : original[d][k].sourceline # n)
                           => IsPadding(cfg2newlines[d][row])

\* expand_to_match has returned two sequences, one that gave two lines for a
\* source line the other lacks, so that the other was padded twice.
C12_Witness ==
    /\ lpc = "returned"
    /\ \E c, d \in DOMAIN cfg2newlines :
           \E n \in AlignSourceLines :
               /\ Cardinality(RowsOf(c, n)) = 2
               /\ \A r \in RowsOf(c, n) : IsPadding(cfg2newlines[d][r])
               /\ \E m \in AlignSourceLines : m > n /\ RowsOf(c, m) # {} /\ RowsOf(d, m) # {}

\* The lines expand_to_match has still to take.
RemainingLines == TotalLen(items)

\* C13: expand_to_match terminates and the sequences it builds have the
\* same length after every iteration and when it returns: an iteration can
\* always be taken until it returns, and each one takes at least one of the
\* finitely many lines.
C13_EqualLengths ==
    /\ [](\A c, d \in DOMAIN cfg2newlines :
              Len(cfg2newlines[c]) = Len(cfg2newlines[d]))
    /\ [](lpc = "loop" => ENABLED (AlignIteration \/ AlignReturn))
    /\ [](lpc = "returned" => RemainingLines = 0)
    /\ [][lpc = "loop" =>
             \/ lpc' = "returned"
             \/ lpc' = "loop" /\ RemainingLines' < RemainingLines]_alignVars

\* expand_to_match has returned sequences of one length for inputs of
\* different lengths.
C13_Witness ==
    /\ lpc = "returned"
    /\ \E c, d \in DOMAIN cfg2newlines :
           /\ Len(original[c]) < Len(original[d])
           /\ Len(cfg2newlines[c]) = Len(cfg2newlines[d])
           /\ Len(cfg2newlines[d]) > Len(original[d])

(***************************************************************************)
(* More claims about simplify_tags.                                        *)
(***************************************************************************)
\* C14: simplify is idempotent: simplify_tags of a group simplify_tags has
\* returned returns that same group, and the returned group holds no two
\* equal Configurations and no two Configurations that are identical but
\* for the truth value of one condition.
C14_Idempotent ==
    sagain # <<>> =>
        /\ sagain[1].ok
        /\ sagain[1].tags = sresult
        /\ \A i, j \in 1..Len(sresult) :
               i # j => /\ sresult[i] # sresult[j]
                        /\ ~AdjacentRows(sresult[i], sresult[j])

(***************************************************************************)
(* The order of the list of complete Configurations.                      *)
(***************************************************************************)
\* The total order of the claim: Configurations compared as their sorted
\* condition lists, condition by condition, name first and then truth.
RECURSIVE LexLt(_, _)
LexLt(s, t) ==
    IF t = <<>> THEN FALSE
    ELSE IF s = <<>> THEN TRUE
    ELSE IF s[1] = t[1] THEN LexLt(Tail(s), Tail(t))
    ELSE CondLt(s[1], t[1])

TotalLt(a, b) == LexLt(SortedConditions(a), SortedConditions(b))

\* C15: the list get_complete_configurations returns is in the total order
\* on Configurations (condition name, then truth), so that the list is the
\* same whatever order the set it is built from iterates in.
C15_TotalOrder ==
    epc = "done" =>
        \A i, j \in 1..Len(eresult) :
            i < j => TotalLt(eresult[i], eresult[j])

\* C16: group concatenation is commutative: a + b and b + a, built from the
\* same Configurations supplied in the two orders, are equal groups.
C16_Commutative ==
    (cgab # <<>> /\ cgba # <<>>) => cgab[1] = cgba[1]

(***************************************************************************)
(* The generation phase: the order of the results, and a failing           *)
(* generator.                                                              *)
(***************************************************************************)
\* The dispatch positions of the Configurations that own result k: those
\* whose expanded text the generator turns into the text of that result.
Owners(k) == {t \in Threads : cython[gsource[t]] = Texts(ordered_results[k])}

FirstDispatched(k) == SetMin(Owners(k))

\* The results as the dispatch order alone determines them: what each
\* Configuration's thread returns does not depend on when it runs.
DispatchValues == [t \in Threads |-> attach_tags(gconfigs[t], cython[gsource[t]])]

DispatchOrdered ==
    OrderedResultsLoop(1, DispatchValues, gsource,
                       SameResultsLoop(1, DispatchValues, gsource, <<>>).same, <<>>)

\* C17: the list of distinct results handed to the merge is ordered by the
\* position at which the first Configuration owning each result was
\* dispatched, holds the result of every Configuration, and is the list the
\* dispatch order alone determines, in whatever order the threads ended.
C17_DispatchOrder ==
    gpc \in {"done", "merge"} =>
        /\ \A k \in 1..Len(ordered_results) : Owners(k) # {}
        /\ \A k, l \in 1..Len(ordered_results) :
               k < l => FirstDispatched(k) < FirstDispatched(l)
        /\ \A t \in Threads : \E k \in 1..Len(ordered_results) : t \in Owners(k)
        /\ ordered_results = DispatchOrdered

\* Three threads that ended in the reverse of their dispatch order, and two
\* distinct results handed to the merge.
C17_Witness ==
    /\ gpc = "merge"
    /\ completed = <<3, 2, 1>>
    /\ Len(ordered_results) = 2

\* The threads whose generator exited non-zero.
Failed == {t \in Threads : tpc[t] = "raised"}

\* C18: when the generator fails for a Configuration the run ends in a
\* fatal error: the generator is run at most once for each Configuration
\* and a failed thread never runs again, the results are never combined,
\* ordered or handed to the merge (so no merged output is written), the loop
\* over the joined threads raises, and nothing runs after that.
C18_FailureIsFatal ==
    /\ [](\A t \in Threads : attempts[t] <= 1)
    /\ [][\A t \in Failed : tpc'[t] = "raised" /\ attempts'[t] = attempts[t]]_vars
    /\ [](Failed # {} => gpc \notin {"combined", "done", "merge"})
    /\ [][(gpc = "joined" /\ Failed # {}) => gpc' = "TypeError"]_vars
    /\ [](gpc = "TypeError" => ~ENABLED NextGen)

\* One thread failed, another returned its output, and the run has ended in
\* the TypeError.
C18_Witness ==
    /\ gpc = "TypeError"
    /\ Failed # {}
    /\ \E t \in Threads : tpc[t] = "done" /\ tvalue[t] # None

(***************************************************************************)
(* An unmatched #else or #endif.                                           *)
(***************************************************************************)
\* The enumerator is about to read an #else or #endif with its stack empty.
EnumUnderflow ==
    /\ epc = "scan" /\ elinecount < Len(efile)
    /\ efile[elinecount + 1].kind \in {"else", "endif"}
    /\ condition_stack = <<>>

\* The preprocessor, under a Configuration and outside the continuation of
\* a #define, is about to read an #else or #endif with its stack empty.
PreUnderflow ==
    /\ ppc = "scan" /\ plinecount < Len(pfile)
    /\ current_name = <<>>
    /\ ~ConfigIsNone(config)
    /\ NextLine.kind \in {"else", "endif"}
    /\ including_section = <<>>

\* The linecount the handlers of lines 187-188 and 612-613 put in the
\* message after the file name, once the SyntaxError is raised.
EnumReportedLine == elinecount

PreReportedLine == plinecount

\* C19: in the enumerator and in the preprocessor under a Configuration, an
\* #else or #endif directive read while the stack is empty raises the
\* SyntaxError, reported with the 1-based number of that line; the line
\* changes nothing else, nothing runs after the error, and so no later line
\* is read and no configurations or output lines are returned.
C19_UnderflowIsFatal ==
    /\ [][EnumUnderflow =>
             /\ epc' = "SyntaxError"
             /\ EnumReportedLine' = elinecount + 1
             /\ UNCHANGED <<condition_stack, conditions, permutations, eresult>>]_vars
    /\ [][PreUnderflow =>
             /\ ppc' = "SyntaxError"
             /\ PreReportedLine' = plinecount + 1
             /\ UNCHANGED <<including_section, definitions, result>>]_vars
    /\ [](epc = "SyntaxError" =>
             /\ efile[EnumReportedLine].kind \in {"else", "endif"}
             /\ permutations = {} /\ eresult = <<>>
             /\ ~ENABLED NextScan)
    /\ [](ppc = "SyntaxError" => ~ENABLED NextScan)

\* The enumerator stopped at an unmatched #endif on line 3 of a longer
\* file, after an #if block that was closed on line 2; or the preprocessor,
\* under a Configuration, emitted line 1 and stopped at an unmatched #else
\* on line 2 of a longer file.
C19_Witness ==
    \/ /\ epc = "SyntaxError"
       /\ Len(efile) > 3 /\ EnumReportedLine = 3
       /\ efile[1].kind = "if" /\ efile[2].kind = "endif" /\ efile[3].kind = "endif"
    \/ /\ ppc = "SyntaxError"
       /\ ~ConfigIsNone(config)
       /\ Len(pfile) > 2 /\ PreReportedLine = 2
       /\ pfile[1].kind = "text" /\ pfile[2].kind = "else"
       /\ Len(result) = 1

\* C20: every Configuration get_complete_configurations returns assigns
\* every condition name of the file's #if/#ifdef directives, each exactly
\* once.
C20_EveryNameAssigned ==
    epc = "done" =>
        \A k \in 1..Len(eresult) :
            /\ all_directives(eresult[k]) = FileNames(efile)
            /\ ~is_impossible(eresult[k])

(***************************************************************************)
(* Impossible Configurations.                                              *)
(***************************************************************************)
\* The flattened Configurations of the product of line 215: the unions of
\* the non-empty choices of observed Configurations.
Flattenings == {flattened(y) : y \in (SUBSET conditions) \ {{}}}

\* C21: is_impossible is truthy exactly for the Configurations in which a
\* condition name occurs with both truth values; every such flattening is
\* discarded, so no permutation is self-contradictory, and none of the
\* complete Configurations returned is.
C21_NoImpossibleConfiguration ==
    /\ \A c \in Flattenings : is_impossible(c) <=> Contradictory(c)
    /\ epc \in {"permuted", "done"} =>
           /\ \A c \in Flattenings : Contradictory(c) => c \notin permutations
           /\ \A c \in permutations : ~Contradictory(c)
    /\ \A k \in 1..Len(eresult) : ~Contradictory(eresult[k])

\* A file with a content line under #if A and one under its #else inside
\* #if B: the flattening that holds A=True and A=False was discarded and
\* the two complete Configurations were returned.
C21_Witness ==
    /\ epc = "done"
    /\ {Condition("A", TRUE)} \in conditions
    /\ {Condition("A", FALSE), Condition("B", TRUE)} \in conditions
    /\ \E c \in Flattenings : Contradictory(c)
    /\ Len(eresult) = 2

(***************************************************************************)
(* The directives of the regenerator.                                      *)
(***************************************************************************)
\* A group of one Configuration of one Condition.
OneCondition(group) == Len(group) = 1 /\ Cardinality(group[1]) = 1

TheCondition(group) == CHOOSE c \in group[1] : TRUE

\* Two groups of one Configuration of one Condition each, with the same
\* name and opposite truth values.
Complementary(g, h) ==
    /\ OneCondition(g) /\ OneCondition(h)
    /\ TheCondition(g)[1] = TheCondition(h)[1]
    /\ TheCondition(g)[2] # TheCondition(h)[2]

Kinds(yielded) == [k \in 1..Len(yielded) |-> yielded[k].kind]

\* What a step of produce_preprocessor added to the output.
Emitted == SubSeq(output', Len(output) + 1, Len(output'))

\* C22: a line whose group equals the group of the line before it is
\* yielded with no directive; when the group differs, '#else' alone is
\* yielded exactly when the two groups are complementary single
\* conditions, and otherwise '#endif' iff the previous group is non-empty
\* followed by '#if' of the new group iff the new group is non-empty.
C22_DirectivePerChange ==
    [][(mpc = "produce" /\ mline < Len(merged)) =>
          LET key == merged[mline + 1].tags
              directives == SubSeq(Emitted, 1, Len(Emitted) - 1)
          IN  /\ Emitted # <<>>
              /\ Emitted[Len(Emitted)] = Content(merged[mline + 1])
              /\ IF key = state THEN directives = <<>>
                 ELSE IF Complementary(key, state)
                 THEN Kinds(directives) = <<"else">>
                 ELSE /\ Kinds(directives) =
                             (IF state # <<>> THEN <<"endif">> ELSE <<>>)
                             \o (IF key # <<>> THEN <<"if">> ELSE <<>>)
                      /\ \A k \in 1..Len(directives) :
                             directives[k].kind = "if" => directives[k].tags = key]_vars

\* A sequence whose groups are {A=True}, {A=False} and {B=True}: the
\* output holds an '#else' for the first change and '#endif', '#if' for
\* the second.
C22_Witness ==
    /\ mpc = "done"
    /\ Kinds(output) = <<"if", "line", "else", "line", "endif", "if", "line", "endif">>

\* The directives read so far form well-nested, unnested blocks: open tells
\* whether an '#if' is open and else_seen whether it has had its '#else'.
RECURSIVE WellFormedFrom(_, _, _)
WellFormedFrom(kinds, open, else_seen) ==
    IF kinds = <<>> THEN ~open
    ELSE CASE Head(kinds) = "if" ->
                  ~open /\ WellFormedFrom(Tail(kinds), TRUE, FALSE)
           [] Head(kinds) = "else" ->
                  open /\ ~else_seen /\ WellFormedFrom(Tail(kinds), TRUE, TRUE)
           [] Head(kinds) = "endif" ->
                  open /\ WellFormedFrom(Tail(kinds), FALSE, FALSE)
           [] OTHER -> WellFormedFrom(Tail(kinds), open, else_seen)

\* C26: the directives produce_preprocessor emits are well formed: blocks
\* are not nested, every '#if' is closed by one later '#endif', '#else' and
\* '#endif' occur only inside an open block, and a block has at most one
\* '#else'.
C26_WellFormedDirectives ==
    mpc = "done" => WellFormedFrom(Kinds(output), FALSE, FALSE)

(***************************************************************************)
(* The pairwise merges of merge.                                           *)
(***************************************************************************)
\* merge has returned or raised.
MergeEnded == mpc \in {"produce", "done", "TypeError"}

\* The _merge calls that took the original source i as an operand.
CallsOn(i) == {k \in 1..Len(mcalls) : mcalls[k][1] = {i} \/ mcalls[k][2] = {i}}

\* Once merge has ended it made one pairwise merge less than it had
\* sources, each source was an operand of exactly one of them, and the one
\* sequence left is merged from all of them.
PairwiseMergesOnce ==
    MergeEnded =>
        /\ Len(mcalls) = Len(moriginal) - 1
        /\ Len(moriginal) >= 2 =>
               \A i \in 1..Len(moriginal) : Cardinality(CallsOn(i)) = 1
        /\ Len(msources) = 1
        /\ mparts = <<1..Len(moriginal)>>

\* C23: for N >= 1 tagged sequences merge terminates and returns one
\* tagged sequence, after exactly N-1 pairwise merges in which every input
\* sequence took part exactly once.
C23_ConvergesInNMinusOneMerges ==
    /\ mpc # "TypeError"
    /\ PairwiseMergesOnce

(***************************************************************************)
(* One pairwise merge.                                                     *)
(***************************************************************************)
\* The line stems from a (from b): its group holds a Configuration that was
\* merged into a (into b).
StemsFromA(line) == Range(line.tags) \cap ConfigurationsOfA # {}

StemsFromB(line) == Range(line.tags) \cap ConfigurationsOfB # {}

\* How many of the first n lines satisfy the test.
RECURSIVE CountA(_, _)
CountA(lines, n) ==
    IF n = 0 THEN 0 ELSE CountA(lines, n - 1) + (IF StemsFromA(lines[n]) THEN 1 ELSE 0)

RECURSIVE CountB(_, _)
CountB(lines, n) ==
    IF n = 0 THEN 0 ELSE CountB(lines, n - 1) + (IF StemsFromB(lines[n]) THEN 1 ELSE 0)

\* C24: _merge(a, b) loses and reorders nothing.  The lines of the result
\* that stem from a are, in order, the lines of a, and likewise for b; a
\* line that stems from both carries the text once with a's group followed
\* by b's group; a line that stems from one keeps that line's own group;
\* and a line of b alone is never directly followed by a line of a alone.
C24_PairwiseMergeKeepsLines ==
    imerged # <<>> =>
        LET m == imerged[1]
        IN  /\ CountA(m, Len(m)) = Len(ia)
            /\ CountB(m, Len(m)) = Len(ib)
            /\ \A n \in 1..Len(m) :
                   LET k == CountA(m, n)
                       l == CountB(m, n)
                   IN  /\ StemsFromA(m[n]) \/ StemsFromB(m[n])
                       /\ StemsFromA(m[n]) => m[n].text = ia[k].text
                       /\ StemsFromB(m[n]) => m[n].text = ib[l].text
                       /\ m[n].tags =
                              IF StemsFromA(m[n]) /\ StemsFromB(m[n])
                              THEN ConfigurationGroups(ia[k].tags \o ib[l].tags)
                              ELSE IF StemsFromA(m[n]) THEN ia[k].tags
                              ELSE ib[l].tags
            /\ \A n \in 1..(Len(m) - 1) :
                   ~(/\ StemsFromB(m[n]) /\ ~StemsFromA(m[n])
                     /\ StemsFromA(m[n + 1]) /\ ~StemsFromB(m[n + 1]))

\* a = [x, y] and b = [y, x]: the result holds a common line with both
\* groups and lines of a alone and of b alone around it.
C24_Witness ==
    /\ imerged # <<>>
    /\ Texts(ia) = <<"x", "y">>
    /\ Texts(ib) = <<"y", "x">>
    /\ Len(imerged[1]) = 3
    /\ \E n \in 1..3 : StemsFromA(imerged[1][n]) /\ StemsFromB(imerged[1][n])
    /\ \E n \in 1..3 : Len(imerged[1][n].tags) = 4

(***************************************************************************)
(* Nested conditionals in preprocess_filename.                             *)
(***************************************************************************)
\* The directive stack get_configurations holds after the first n lines of
\* the file (lines 172-183); ok is FALSE when one of them raises there.
RECURSIVE EnclosingStack(_, _)
EnclosingStack(file, n) ==
    IF n = 0 THEN [ok |-> TRUE, stack |-> <<>>]
    ELSE LET before == EnclosingStack(file, n - 1)
             stack == before.stack
             line == file[n]
         IN  IF ~before.ok THEN before
             ELSE IF line.kind = "if"
             THEN [ok |-> TRUE, stack |-> Append(stack, Condition(line.arg, TRUE))]
             ELSE IF line.kind = "else"
             THEN IF stack = <<>> \/ ~Top(stack)[2]
                  THEN [ok |-> FALSE, stack |-> <<>>]
                  ELSE [ok |-> TRUE, stack |-> Append(Pop(stack), inverted(Top(stack)))]
             ELSE IF line.kind = "endif"
             THEN IF stack = <<>>
                  THEN [ok |-> FALSE, stack |-> <<>>]
                  ELSE [ok |-> TRUE, stack |-> Pop(stack)]
             ELSE before

\* No line of the file continues a #define, so that the preprocessor reads
\* as directives the lines the enumerator reads as directives.
NoContinuation == \A n \in 1..Len(pfile) : pfile[n].kind # "definecont"

\* C25: under a Configuration C, preprocess_filename emits a line only if
\* every condition of the directive stack that encloses it is true under C:
\* the stack Configuration the enumerator records for the line is a subset
\* of C.  A line in a true block nested in a false block is not emitted.
C25_EmittedOnlyIfStackTrue ==
    (~ConfigIsNone(config) /\ NoContinuation) =>
        \A k \in 1..Len(result) :
            LET enclosing == EnclosingStack(pfile, result[k].sourceline)
            IN  enclosing.ok => Range(enclosing.stack) \subseteq config[1]

\* C27: for a file without conditional directives the enumerator returns
\* the empty list of Configurations, from which the rest of the pipeline
\* goes on to write the generated lines without directives.
C27_NoDirectivesCompletes ==
    (/\ \A n \in 1..Len(efile) : ~match_condition(efile[n])
     /\ epc \in {"done", "TypeError"})
    => (epc = "done" /\ eresult = <<>>)

\* The body with every parameter replaced by its argument at once.
SimultaneousSubstitution(body, params, arguments) ==
    [i \in 1..Len(body) |->
        IF body[i] \in Range(params)
        THEN arguments[CHOOSE k \in 1..Len(params) : params[k] = body[i]]
        ELSE body[i]]

\* The call of the macro has as many arguments as the macro has parameters
\* and repl has come to its end.
MatchingArityEnded ==
    /\ rpc \notin {"off", "repl", "loop"}
    /\ Len(rparams) = Len(rarguments)

\* C28: the expansion of a macro with parameters whose call has the
\* matching arity raises no error and is the body of the macro with every
\* parameter replaced by its argument simultaneously, the text of an
\* argument not rewritten by the substitution of another parameter.
C28_SimultaneousSubstitution ==
    MatchingArityEnded =>
        /\ rpc = "returned"
        /\ rcode = <<SimultaneousSubstitution(rbody, rparams, rarguments)>>

\* The rows of a sequence that expand_to_match has not inserted as padding.
WithoutPadding(newlines) == SelectSeq(newlines, LAMBDA row : row # Padding)

\* C29: expand_to_match only inserts padding: with the padding rows deleted,
\* the rows built for a sequence followed by its lines not yet taken are the
\* original sequence, the same lines in the same order; at the return the
\* rows without the padding are exactly the original sequence.
C29_OnlyPaddingInserted ==
    lpc \in {"loop", "returned"} =>
        \A c \in DOMAIN original :
            /\ WithoutPadding(cfg2newlines[c]) \o items[c] = original[c]
            /\ lpc = "returned" => WithoutPadding(cfg2newlines[c]) = original[c]

\* expand_to_match has returned a sequence of two lines with a padding row
\* inserted between them.
C29_Witness ==
    /\ lpc = "returned"
    /\ \E c \in DOMAIN original :
           /\ Len(original[c]) = 2
           /\ Len(cfg2newlines[c]) = 3
           /\ cfg2newlines[c][2] = Padding
           /\ cfg2newlines[c][1] = original[c][1]
           /\ cfg2newlines[c][3] = original[c][2]

\* get_configurations has returned its conditions to its caller.
EnumReturned == epc \in {"scanned", "permuted", "done"}

\* preprocess_filename has returned its result under a Configuration.
PreReturned == ppc = "done" /\ ~ConfigIsNone(config)

\* C30: a file whose #if is still open at its end, or that has a second
\* #else for one #if, is rejected as a fatal error by the enumerator and by
\* the preprocessor: neither returns a normal result while its stack of
\* directives is not empty.
C30_OpenDirectiveIsFatal ==
    /\ EnumReturned => condition_stack = <<>>
    /\ PreReturned => including_section = <<>>

====
